---------------------------- MODULE Spec2Model ----------------------------
(***************************************************************************)
(* A model of the compiler core of dummy_c_rust: the nom parser            *)
(* (src/src/parser.rs, src/src/parser/toplevel.rs, src/src/parser/util.rs),*)
(* the printed form of types (src/src/ast.rs), the error contexts          *)
(* (src/src/resolver/error.rs), the resolution of assignments              *)
(* (src/src/resolver/expression/assignment.rs), the scoped variable lookup *)
(* of the code generator (src/src/llvm_codegen/mod.rs) and the lowering of *)
(* expressions, statements and functions (src/src/builder,                 *)
(* src/src/llvm_codegen/toplevel.rs).                                      *)
(*                                                                         *)
(* Source text is a sequence of one-character strings.  A parser is an     *)
(* operator of the text s and the index i of the next character; it yields *)
(* a record [st, pos, val]: st is "Ok" (val parsed, pos the next index),   *)
(* "Error" (nom's recoverable Err::Error: pos = i) or "Panic" (the process *)
(* aborted, e.g. unwrap() on an Err).                                      *)
(***************************************************************************)
EXTENDS Integers, Sequences, FiniteSets, TLC

VARIABLES
    input,       \* parser: the source text handed to the parser
    pc,          \* parser: "start", or the name of the parser that has run
    result,      \* parser: what that parser returned
    scopes,      \* codegen: Context.scopes, a stack of maps name -> binding
    nextPtr,     \* codegen: the number of the next stack slot allocated
    lastPopped,  \* codegen: the scopes popped so far, latest last
    looked,      \* codegen: the last get_variable call and what it returned
    outcome,     \* errors: the Result of the construct being resolved
    ctxStack,    \* errors: the error_context! invocations still open
    openAtFail,  \* errors: the invocations that were open when the error
                 \*         was raised
    table,       \* generics: resolved_functions, mangled name -> entry
    callStack,   \* generics: the instances whose body is being resolved
    bodyRuns,    \* generics: how often each instance's body was resolved
    requested,   \* generics: the (function, type arguments) called so far
    lastCall,    \* generics: the last call resolved and how
    tyPair,      \* types: two unresolved types
    printed,     \* types: their printed forms, <<>> before printing
    varTypes,    \* assignment: VariableScopes, name -> ResolvedType
    assignment,  \* assignment: the assignment expression under resolution
    resolved,    \* assignment: what resolve_assignment returned
    genPc,       \* lowering: "ready", or the lowering that has run
    genContext,  \* lowering: the Context, variable and function scopes
    built,       \* lowering: the last lowering, its input and result
    genCount     \* lowering: the functions gen_function was called for

parserVars == <<input, pc, result>>

scopeVars == <<scopes, nextPtr, lastPopped, looked>>

errVars == <<outcome, ctxStack, openAtFail>>

monoVars == <<table, callStack, bodyRuns, requested, lastCall>>

typeVars == <<tyPair, printed>>

assignVars == <<varTypes, assignment, resolved>>

genVars == <<genPc, genContext, built, genCount>>

vars ==
    <<parserVars, scopeVars, errVars, monoVars, typeVars, assignVars,
      genVars>>

---------------------------------------------------------------------------
(* Characters and parse results                                            *)

Digits == {"0", "1", "2", "3", "4", "5", "6", "7", "8", "9"}

AsciiLetters ==
    {"a", "b", "c", "d", "e", "f", "g", "h", "i", "j", "k", "l", "m",
     "n", "o", "p", "q", "r", "s", "t", "u", "v", "w", "x", "y", "z",
     "A", "B", "C", "D", "E", "F", "G", "H", "I", "J", "K", "L", "M",
     "N", "O", "P", "Q", "R", "S", "T", "U", "V", "W", "X", "Y", "Z"}

\* One character standing for the alphabetic characters outside ASCII
\* (char::is_alphabetic is Unicode's Alphabetic property).
NonAsciiLetter == "U+00E9"

Ok(p, v) == [st |-> "Ok", pos |-> p, val |-> v]

Error(p) == [st |-> "Error", pos |-> p, val |-> <<>>]

Panic(p) == [st |-> "Panic", pos |-> p, val |-> <<>>]

None == <<>>

Some(v) == <<v>>

SetMin(S) == CHOOSE m \in S : \A n \in S : m <= n

SetMax(S) == CHOOSE m \in S : \A n \in S : m >= n

\* The index after the longest run of characters of the set cls from i on.
SpanEnd(s, i, cls) ==
    LET stops == {k \in i..Len(s) : s[k] \notin cls}
    IN  IF stops = {} THEN Len(s) + 1 ELSE SetMin(stops)

\* nom::character::complete::multispace0/1: space, tab, CR, LF
MultispaceChars == {" ", "\t", "\r", "\n"}

\* The characters on which parse_identifier's take_till1 does not stop:
\* !x.is_alphabetic() && !x.is_digit(10) && !['-', '_'].contains(&x)
IdentChars == AsciiLetters \cup {NonAsciiLetter} \cup Digits \cup {"-", "_"}

---------------------------------------------------------------------------
(* nom's combinators.  A parser passed to a combinator is a descriptor     *)
(* [p, a]: p names the combinator, or one of the parser functions below,   *)
(* and a holds the combinator's arguments.                                 *)

Tag(lit) == [p |-> "tag", a |-> lit]

Char(c) == [p |-> "tag", a |-> <<c>>]

Fn(name) == [p |-> name, a |-> <<>>]

Opt(d) == [p |-> "opt", a |-> d]

Alt(ds) == [p |-> "alt", a |-> ds]

Permutation(ds) == [p |-> "permutation", a |-> ds]

Many0(d) == [p |-> "many0", a |-> d]

Delimited(l, d, r) == [p |-> "delimited", a |-> <<l, d, r>>]

SeparatedList0(sep, d) == [p |-> "separated_list0", a |-> <<sep, d>>]

Pair(d1, d2) == [p |-> "pair", a |-> <<d1, d2>>]

Not(d) == [p |-> "not", a |-> d]

TakeTill(stops) == [p |-> "take_till", a |-> stops]

\* take_till: the characters up to the first one of the set stops
TillEnd(s, i, stops) ==
    LET found == {k \in i..Len(s) : s[k] \in stops}
    IN  IF found = {} THEN Len(s) + 1 ELSE SetMin(found)

take_till(stops, s, i) ==
    LET e == TillEnd(s, i, stops) IN Ok(e, SubSeq(s, i, e - 1))

\* tag / char: the literal, or Error
tag(lit, s, i) ==
    IF i + Len(lit) - 1 <= Len(s) /\ SubSeq(s, i, i + Len(lit) - 1) = lit
    THEN Ok(i + Len(lit), lit)
    ELSE Error(i)

\* digit1: one or more ASCII digits
digit1(s, i) ==
    LET e == SpanEnd(s, i, Digits)
    IN  IF e > i THEN Ok(e, SubSeq(s, i, e - 1)) ELSE Error(i)

\* multispace0: always succeeds
multispace0(s, i) == Ok(SpanEnd(s, i, MultispaceChars), <<>>)

multispace1(s, i) ==
    LET e == SpanEnd(s, i, MultispaceChars)
    IN  IF e > i THEN Ok(e, <<>>) ELSE Error(i)

\* space0: zero or more spaces and tabs
space0(s, i) == Ok(SpanEnd(s, i, {" ", "\t"}), <<>>)

\* eof: succeeds on empty input only
eof(s, i) == IF i > Len(s) THEN Ok(i, <<>>) ELSE Error(i)

\* line_ending: "\n" or "\r\n"
line_ending(s, i) ==
    IF i <= Len(s) /\ s[i] = "\n" THEN Ok(i + 1, <<>>)
    ELSE IF i + 1 <= Len(s) /\ s[i] = "\r" /\ s[i + 1] = "\n"
         THEN Ok(i + 2, <<>>)
         ELSE Error(i)

\* 1-based line and column of index i (nom_locate's location_line and
\* get_column).
LineOf(s, i) == 1 + Cardinality({k \in 1..(i - 1) : s[k] = "\n"})

LineStart(s, i) ==
    LET breaks == {k \in 1..(i - 1) : s[k] = "\n"}
    IN  IF breaks = {} THEN 1 ELSE SetMax(breaks) + 1

ColOf(s, i) == i - LineStart(s, i) + 1

PositionAt(s, i) == [line |-> LineOf(s, i), col |-> ColOf(s, i)]

---------------------------------------------------------------------------
(* The AST of src/src/parser.rs                                            *)

IntValue(n) == [kind |-> "IntValue", value |-> n]

VariableRef(name) == [kind |-> "VariableRef", name |-> name]

BinaryExpr(op, lhs, rhs) ==
    [kind |-> "BinaryExpr", op |-> op, lhs |-> lhs, rhs |-> rhs]

CallExpr(name, args) == [kind |-> "CallExpr", name |-> name, args |-> args]

ReturnStmt(e) == [kind |-> "Return", expression |-> e]

AsignmentStmt(name, e) ==
    [kind |-> "Asignment", name |-> name, expression |-> e]

VariableDeclStmt(name, e) ==
    [kind |-> "VariableDecl", name |-> name, value |-> e]

DiscardedExpressionStmt(e) ==
    [kind |-> "DiscardedExpression", expression |-> e]

\* The closures |(op, _, expression)| match op { '+' => BinaryOp::Add, ... }
BinaryOpOf(c) ==
    CASE c = "+" -> "Add"
      [] c = "-" -> "Sub"
      [] c = "*" -> "Mul"
      [] c = "/" -> "Div"

\* i32::MAX, digit by digit
I32MaxDigits == <<"2", "1", "4", "7", "4", "8", "3", "6", "4", "7">>

DigitValue(c) == CHOOSE n \in 0..9 : ToString(n) = c

\* The value of a string of decimal digits.
RECURSIVE DecimalValue(_)
DecimalValue(ds) ==
    IF ds = <<>> THEN 0
    ELSE 10 * DecimalValue(SubSeq(ds, 1, Len(ds) - 1))
         + DigitValue(ds[Len(ds)])

RECURSIVE StripZeros(_)
StripZeros(ds) ==
    IF ds # <<>> /\ Head(ds) = "0" THEN StripZeros(Tail(ds)) ELSE ds

\* a <= b for two digit strings of the same length
RECURSIVE DigitsLeq(_, _)
DigitsLeq(a, b) ==
    IF a = <<>> THEN TRUE
    ELSE IF DigitValue(Head(a)) # DigitValue(Head(b))
         THEN DigitValue(Head(a)) < DigitValue(Head(b))
         ELSE DigitsLeq(Tail(a), Tail(b))

\* str.parse::<i32>() on a string of digits is Ok exactly when the value
\* is at most i32::MAX (leading zeros are accepted).
ParsesAsI32(ds) ==
    LET t == StripZeros(ds)
    IN  \/ Len(t) < Len(I32MaxDigits)
        \/ Len(t) = Len(I32MaxDigits) /\ DigitsLeq(t, I32MaxDigits)

\* fold_binexp: the first pair's operator at the root, first on the left,
\* the fold of the tail on the right.
RECURSIVE fold_binexp(_, _)
fold_binexp(first, rest) ==
    IF Len(rest) = 0 THEN first
    ELSE IF Len(rest) = 1
         THEN BinaryExpr(rest[1][1], first, rest[1][2])
         ELSE BinaryExpr(rest[1][1], first,
                         fold_binexp(rest[1][2], Tail(rest)))

---------------------------------------------------------------------------
(* The parser functions of src/src/parser.rs                               *)

RECURSIVE Run(_, _, _)
RECURSIVE PermutationFrom(_, _, _, _)
RECURSIVE Many0From(_, _, _, _)
RECURSIVE SeparatedList0From(_, _, _, _, _)
RECURSIVE located(_, _, _)
RECURSIVE comment(_, _)
RECURSIVE skip0(_, _)
RECURSIVE parse_number_literal(_, _)
RECURSIVE parse_identifier(_, _)
RECURSIVE parse_variable_ref(_, _)
RECURSIVE parse_asignment(_, _)
RECURSIVE parse_variable_decl(_, _)
RECURSIVE parse_multiplicative_expression(_, _)
RECURSIVE parse_additive_expression_impl(_, _)
RECURSIVE parse_additive_expression(_, _)
RECURSIVE parse_primary_expression(_, _)
RECURSIVE parse_function_call_expression(_, _)
RECURSIVE parse_postfix_expression(_, _)
RECURSIVE parse_expression(_, _)
RECURSIVE parse_discarded_expression_statement(_, _)
RECURSIVE parse_return_statement(_, _)
RECURSIVE parse_statement(_, _)
RECURSIVE parse_type(_, _)
RECURSIVE toplevel_parameter(_, _)
RECURSIVE toplevel_return_type(_, _)
RECURSIVE toplevel_parse_function_decl(_, _)
RECURSIVE parse_argument(_, _)
RECURSIVE parse_argument_list(_, _)
RECURSIVE parse_function_decl(_, _)
RECURSIVE parse_block_statement(_, _)
RECURSIVE parse_block(_, _)
RECURSIVE parse_function(_, _)
RECURSIVE parse_module(_, _)
RECURSIVE ManyTillFrom(_, _, _, _, _)

\* alt: the first alternative that does not fail with Error (the tuples
\* of alt hold at most four parsers here)
AltOf(ds, s, i) ==
    LET r1 == Run(ds[1], s, i)
        r2 == Run(ds[2], s, i)
        r3 == Run(ds[3], s, i)
        r4 == Run(ds[4], s, i)
    IN  CASE r1.st # "Error" -> r1
          [] Len(ds) >= 2 /\ r2.st # "Error" -> r2
          [] Len(ds) >= 3 /\ r3.st # "Error" -> r3
          [] Len(ds) >= 4 /\ r4.st # "Error" -> r4
          [] OTHER -> Error(i)

\* permutation: nom applies, at the current position, the first parser of
\* the tuple that has not succeeded yet and succeeds now, and starts over
\* from the first; it ends with Ok when all have succeeded and with Error
\* when one is left and none of those left succeeds.  done[k] is <<>> or
\* <<value of parser k>> (the tuples of permutation hold at most seven
\* parsers here).
PermutationFrom(ds, s, i, done) ==
    LET Left(k) == k <= Len(ds) /\ done[k] = <<>>
        r1 == Run(ds[1], s, i)
        r2 == Run(ds[2], s, i)
        r3 == Run(ds[3], s, i)
        r4 == Run(ds[4], s, i)
        r5 == Run(ds[5], s, i)
        r6 == Run(ds[6], s, i)
        r7 == Run(ds[7], s, i)
        Taken(k, r) ==
            IF r.st # "Ok" THEN r
            ELSE PermutationFrom(ds, s, r.pos, [done EXCEPT ![k] = <<r.val>>])
    IN  CASE (\A j \in 1..Len(ds) : done[j] # <<>>) ->
                 Ok(i, [j \in 1..Len(ds) |-> done[j][1]])
          [] Left(1) /\ r1.st # "Error" -> Taken(1, r1)
          [] Left(2) /\ r2.st # "Error" -> Taken(2, r2)
          [] Left(3) /\ r3.st # "Error" -> Taken(3, r3)
          [] Left(4) /\ r4.st # "Error" -> Taken(4, r4)
          [] Left(5) /\ r5.st # "Error" -> Taken(5, r5)
          [] Left(6) /\ r6.st # "Error" -> Taken(6, r6)
          [] Left(7) /\ r7.st # "Error" -> Taken(7, r7)
          [] OTHER -> Error(i)

\* many0: repeats until Error; a success that consumes nothing is an Error
Many0From(d, s, i, acc) ==
    LET r == Run(d, s, i)
    IN  CASE r.st = "Error" -> Ok(i, acc)
          [] r.st = "Ok" -> IF r.pos = i THEN Error(i)
                            ELSE Many0From(d, s, r.pos, Append(acc, r.val))
          [] OTHER -> r

\* separated_list0 as it would be if a separator that no element follows
\* were consumed
separated_list0_dropping_separator(sep, d, s, i, acc) ==
    LET rs == Run(sep, s, i)
        r == Run(d, s, rs.pos)
    IN  CASE rs.st = "Error" -> Ok(i, acc)
          [] rs.st # "Ok" -> rs
          [] rs.pos = i -> Error(i)
          [] r.st = "Error" -> Ok(rs.pos, acc)
          [] r.st # "Ok" -> r
          [] OTHER -> SeparatedList0From(sep, d, s, r.pos, Append(acc, r.val))

\* separated_list0, after the first element
SeparatedList0From(sep, d, s, i, acc) ==
    LET rs == Run(sep, s, i)
    IN  CASE rs.st = "Error" -> Ok(i, acc)
          [] rs.st = "Ok" ->
               IF rs.pos = i THEN Error(i)
               ELSE LET r == Run(d, s, rs.pos)
                    IN  CASE r.st = "Error" -> Ok(i, acc)
                          [] r.st = "Ok" ->
                               SeparatedList0From(sep, d, s, r.pos,
                                                  Append(acc, r.val))
                          [] OTHER -> r
          [] OTHER -> rs

\* The application of a descriptor: of a combinator to its arguments, or
\* of the parser function a descriptor Fn(name) names.
Run(d, s, i) ==
    CASE d.p = "tag" -> tag(d.a, s, i)
      [] d.p = "take_till" -> take_till(d.a, s, i)
      [] d.p = "alt" -> AltOf(d.a, s, i)
      [] d.p = "permutation" ->
            PermutationFrom(d.a, s, i, [j \in 1..Len(d.a) |-> <<>>])
      [] d.p = "many0" -> Many0From(d.a, s, i, <<>>)
      [] d.p = "located" -> located(d.a, s, i)
      [] d.p = "opt" ->
            LET r == Run(d.a, s, i)
            IN  CASE r.st = "Ok" -> Ok(r.pos, Some(r.val))
                  [] r.st = "Error" -> Ok(i, None)
                  [] OTHER -> r
      [] d.p = "not" ->
            LET r == Run(d.a, s, i)
            IN  CASE r.st = "Ok" -> Error(i)
                  [] r.st = "Error" -> Ok(i, <<>>)
                  [] OTHER -> r
      [] d.p = "pair" ->
            LET r1 == Run(d.a[1], s, i)
                r2 == Run(d.a[2], s, r1.pos)
            IN  CASE r1.st # "Ok" -> r1
                  [] r2.st # "Ok" -> [r2 EXCEPT !.pos = i]
                  [] OTHER -> Ok(r2.pos, <<r1.val, r2.val>>)
      [] d.p = "delimited" ->
            LET r1 == Run(d.a[1], s, i)
                r2 == Run(d.a[2], s, r1.pos)
                r3 == Run(d.a[3], s, r2.pos)
            IN  CASE r1.st # "Ok" -> r1
                  [] r2.st # "Ok" -> [r2 EXCEPT !.pos = i]
                  [] r3.st # "Ok" -> [r3 EXCEPT !.pos = i]
                  [] OTHER -> Ok(r3.pos, r2.val)
      [] d.p = "separated_list0" ->
            LET r == Run(d.a[2], s, i)
            IN  CASE r.st = "Error" -> Ok(i, <<>>)
                  [] r.st = "Ok" ->
                       SeparatedList0From(d.a[1], d.a[2], s, r.pos, <<r.val>>)
                  [] OTHER -> r
      [] d.p = "digit1" -> digit1(s, i)
      [] d.p = "multispace0" -> multispace0(s, i)
      [] d.p = "multispace1" -> multispace1(s, i)
      [] d.p = "line_ending" -> line_ending(s, i)
      [] d.p = "eof" -> eof(s, i)
      [] d.p = "comment" -> comment(s, i)
      [] d.p = "skip0" -> skip0(s, i)
      [] d.p = "parse_number_literal" -> parse_number_literal(s, i)
      [] d.p = "parse_identifier" -> parse_identifier(s, i)
      [] d.p = "parse_variable_ref" -> parse_variable_ref(s, i)
      [] d.p = "parse_asignment" -> parse_asignment(s, i)
      [] d.p = "parse_variable_decl" -> parse_variable_decl(s, i)
      [] d.p = "parse_multiplicative_expression" -> parse_multiplicative_expression(s, i)
      [] d.p = "parse_additive_expression_impl" -> parse_additive_expression_impl(s, i)
      [] d.p = "parse_additive_expression" -> parse_additive_expression(s, i)
      [] d.p = "parse_primary_expression" -> parse_primary_expression(s, i)
      [] d.p = "parse_function_call_expression" -> parse_function_call_expression(s, i)
      [] d.p = "parse_postfix_expression" -> parse_postfix_expression(s, i)
      [] d.p = "parse_expression" -> parse_expression(s, i)
      [] d.p = "parse_discarded_expression_statement" -> parse_discarded_expression_statement(s, i)
      [] d.p = "parse_return_statement" -> parse_return_statement(s, i)
      [] d.p = "parse_statement" -> parse_statement(s, i)
      [] d.p = "space0" -> space0(s, i)
      [] d.p = "parse_type" -> parse_type(s, i)
      [] d.p = "toplevel_parameter" -> toplevel_parameter(s, i)
      [] d.p = "toplevel_return_type" -> toplevel_return_type(s, i)
      [] d.p = "toplevel_parse_function_decl" -> toplevel_parse_function_decl(s, i)
      [] d.p = "parse_argument" -> parse_argument(s, i)
      [] d.p = "parse_argument_list" -> parse_argument_list(s, i)
      [] d.p = "parse_function_decl" -> parse_function_decl(s, i)
      [] d.p = "parse_block_statement" -> parse_block_statement(s, i)
      [] d.p = "parse_block" -> parse_block(s, i)
      [] d.p = "parse_function" -> parse_function(s, i)
      [] d.p = "parse_module" -> parse_module(s, i)

\* located as it would be if the start position were taken before skip0
located_from_input_start(d, s, i) ==
    LET r0 == skip0(s, i)
        r == Run(d, s, r0.pos)
    IN  CASE r0.st # "Ok" -> r0
          [] r.st # "Ok" -> [r EXCEPT !.pos = i]
          [] OTHER ->
               Ok(r.pos,
                  [range |-> [from |-> PositionAt(s, i),
                              to |-> PositionAt(s, r.pos),
                              fragment |-> SubSeq(s, r0.pos, r.pos - 1)],
                   value |-> r.val])

\* located(parser): skip0, the start position, the parser, the end
\* position; the value is wrapped with its range.
located(d, s, i) ==
    LET r0 == skip0(s, i)
        r == Run(d, s, r0.pos)
    IN  CASE r0.st # "Ok" -> r0
          [] r.st # "Ok" -> [r EXCEPT !.pos = i]
          [] OTHER ->
               Ok(r.pos,
                  [range |-> [from |-> PositionAt(s, r0.pos),
                              to |-> PositionAt(s, r.pos),
                              fragment |-> SubSeq(s, r0.pos, r.pos - 1)],
                   value |-> r.val])

\* A parser's result with its value mapped by the closure's result v.
Mapped(r, v) == IF r.st = "Ok" THEN Ok(r.pos, v) ELSE r

\* A located parser's result with the located value mapped.
MappedLocated(r, v) ==
    IF r.st = "Ok" THEN Ok(r.pos, [r.val EXCEPT !.value = v]) ELSE r

\* map(permutation((tag("//"), take_till(..), alt((line_ending, eof)))),
\* |_| ()): the value, of a result of any kind, is the unit
comment(s, i) ==
    [Run(Permutation(<<Tag(<<"/", "/">>),
                       TakeTill({"\r", "\n"}),
                       Alt(<<Fn("line_ending"), Fn("eof")>>)>>), s, i)
        EXCEPT !.val = <<>>]

\* map(many0(alt((comment, multispace1))), |_| ())
skip0(s, i) ==
    [Run(Many0(Alt(<<Fn("comment"), Fn("multispace1")>>)), s, i)
        EXCEPT !.val = <<>>]

\* located(map(digit1, |str| IntValue { value: str.parse::<i32>().unwrap() }))
parse_number_literal(s, i) ==
    LET r == located(Fn("digit1"), s, i)
    IN  IF r.st # "Ok" THEN r
        ELSE IF ParsesAsI32(r.val.value)
             THEN MappedLocated(r, IntValue(DecimalValue(r.val.value)))
             ELSE Panic(i)

\* not(digit1), then take_till1 of the first character that is neither
\* alphabetic, nor a digit, nor '-' or '_'
parse_identifier(s, i) ==
    LET n == Run(Not(Fn("digit1")), s, i)
    IN  IF n.st # "Ok" THEN n
        ELSE LET e == SpanEnd(s, i, IdentChars)
             IN  IF e > i THEN Ok(e, SubSeq(s, i, e - 1)) ELSE Error(i)

parse_variable_ref(s, i) ==
    LET r == located(Fn("parse_identifier"), s, i)
    IN  IF r.st # "Ok" THEN r ELSE MappedLocated(r, VariableRef(r.val.value))

parse_asignment(s, i) ==
    LET r == located(Permutation(<<Fn("parse_identifier"), Fn("multispace0"),
                                   Char("="), Fn("multispace0"),
                                   Fn("parse_expression")>>), s, i)
    IN  IF r.st # "Ok" THEN r
        ELSE MappedLocated(r, AsignmentStmt(r.val.value[1],
                                            r.val.value[5].value))

parse_variable_decl(s, i) ==
    LET r == located(Permutation(<<Tag(<<"i", "n", "t">>), Fn("multispace0"),
                                   Fn("parse_identifier"), Fn("multispace0"),
                                   Char("="), Fn("multispace0"),
                                   Fn("parse_expression")>>), s, i)
    IN  IF r.st # "Ok" THEN r
        ELSE MappedLocated(r, VariableDeclStmt(r.val.value[3],
                                               r.val.value[7].value))

\* The (BinaryOp, Expression) pairs of a many0 of (op, _, expression).
OperatorPairs(vs) ==
    [k \in 1..Len(vs) |-> <<BinaryOpOf(vs[k][1][1]), vs[k][3].value>>]

parse_multiplicative_expression(s, i) ==
    LET r0 == skip0(s, i)
        lhs == parse_postfix_expression(s, r0.pos)
        rhss == Many0From(Permutation(<<Alt(<<Char("*"), Char("/")>>),
                                        Fn("multispace0"),
                                        Fn("parse_postfix_expression")>>),
                          s, lhs.pos, <<>>)
    IN  CASE r0.st # "Ok" -> r0
          [] lhs.st # "Ok" -> [lhs EXCEPT !.pos = i]
          [] rhss.st # "Ok" -> [rhss EXCEPT !.pos = i]
          [] OTHER -> Ok(rhss.pos, fold_binexp(lhs.val.value,
                                               OperatorPairs(rhss.val)))

parse_additive_expression_impl(s, i) ==
    LET r0 == skip0(s, i)
        lhs == parse_multiplicative_expression(s, r0.pos)
        rhss == Many0From(Permutation(<<Alt(<<Char("+"), Char("-")>>),
                                        Fn("multispace0"),
                                        Fn("parse_postfix_expression")>>),
                          s, lhs.pos, <<>>)
    IN  CASE r0.st # "Ok" -> r0
          [] lhs.st # "Ok" -> [lhs EXCEPT !.pos = i]
          [] rhss.st # "Ok" -> [rhss EXCEPT !.pos = i]
          [] OTHER -> Ok(rhss.pos, fold_binexp(lhs.val,
                                               OperatorPairs(rhss.val)))

parse_additive_expression(s, i) ==
    located(Fn("parse_additive_expression_impl"), s, i)

parse_primary_expression(s, i) ==
    LET r0 == skip0(s, i)
        r == AltOf(<<Fn("parse_number_literal"),
                     Delimited(Char("("), Fn("parse_expression"), Char(")")),
                     Fn("parse_variable_ref")>>, s, r0.pos)
    IN  CASE r0.st # "Ok" -> r0
          [] r.st # "Ok" -> [r EXCEPT !.pos = i]
          [] OTHER -> r

\* The values of a list of located expressions.
ValuesOf(ls) == [k \in 1..Len(ls) |-> ls[k].value]

parse_function_call_expression(s, i) ==
    LET r == located(Pair(Fn("parse_identifier"),
                          Delimited(Char("("),
                                    SeparatedList0(Char(","),
                                                   Fn("parse_expression")),
                                    Char(")"))), s, i)
    IN  IF r.st # "Ok" THEN r
        ELSE MappedLocated(r, CallExpr(r.val.value[1],
                                       ValuesOf(r.val.value[2])))

parse_postfix_expression(s, i) ==
    Run(Alt(<<Fn("parse_primary_expression"),
              Fn("parse_function_call_expression")>>), s, i)

parse_expression(s, i) ==
    Run(Alt(<<Fn("parse_function_call_expression"),
              Fn("parse_additive_expression")>>), s, i)

parse_discarded_expression_statement(s, i) ==
    LET r == located(Fn("parse_expression"), s, i)
    IN  IF r.st # "Ok" THEN r
        ELSE MappedLocated(r, DiscardedExpressionStmt(r.val.value.value))

\* opt_expr.map(|x| x.value)
OptionValue(o) == IF o = None THEN None ELSE Some(o[1].value)

parse_return_statement(s, i) ==
    LET r == located(Permutation(<<Tag(<<"r", "e", "t", "u", "r", "n">>),
                                   Fn("multispace1"),
                                   Opt(Fn("parse_expression"))>>), s, i)
    IN  IF r.st # "Ok" THEN r
        ELSE MappedLocated(r, ReturnStmt(OptionValue(r.val.value[3])))

parse_statement(s, i) ==
    LET r == Run(Permutation(<<Alt(<<Fn("parse_return_statement"),
                                     Fn("parse_asignment"),
                                     Fn("parse_variable_decl"),
                                     Fn("parse_discarded_expression_statement")>>),
                               Fn("multispace0"),
                               Char(";")>>), s, i)
    IN  IF r.st # "Ok" THEN r ELSE Mapped(r, r.val[1])

---------------------------------------------------------------------------
(* The parser as a state machine: a source text is chosen, then one of the *)
(* parser functions is applied to it.                                      *)

\* The longest operator chain x0 op1 x1 ... among the inputs
MaxOps == 3

\* The longest text among the identifier inputs
MaxIdLen == 3

\* The longest digit string among the number inputs
MaxDigits == 11

BinaryOpChars == {"+", "-", "*", "/"}

AdditiveChars == {"+", "-"}

MultiplicativeChars == {"*", "/"}

\* The sequences over the set S of length lo..hi
SeqsOf(S, lo, hi) == UNION {[1..n -> S] : n \in lo..hi}

LetterOperands == <<"a", "b", "c", "d", "e">>

DigitOperands == <<"1", "2", "3", "4", "5">>

\* The text x0 op1 x1 op2 x2 ..., with sp between operands and operators
RECURSIVE ChainText(_, _, _, _)
ChainText(xs, ops, sp, k) ==
    IF k > Len(ops) THEN <<>>
    ELSE sp \o <<ops[k]>> \o sp \o <<xs[k + 1]>> \o ChainText(xs, ops, sp, k + 1)

ChainInput(xs, ops, sp) == <<xs[1]>> \o ChainText(xs, ops, sp, 1)

ChainInputs ==
    {ChainInput(xs, ops, sp) :
        xs \in {LetterOperands, DigitOperands},
        ops \in SeqsOf(BinaryOpChars, 0, MaxOps),
        sp \in {<<>>, <<" ">>}}

ReturnKw == <<"r", "e", "t", "u", "r", "n">>

StatementInputs ==
    {pre \o e \o post :
        pre \in {<<>>, ReturnKw, ReturnKw \o <<" ">>, ReturnKw \o <<"\n">>,
                 <<"a", "=">>, <<"a", " ", "=", " ">>,
                 <<"i", "n", "t", " ", "a", "=">>},
        e \in {<<>>, <<"a">>, <<"1">>, <<"a", "+", "1">>},
        post \in {<<";">>, <<" ", ";">>, <<>>}}

\* Calls and parenthesised expressions
CallInputs ==
    {e \o post :
        e \in {<<"f", "(", "1", ",", "a", ")">>, <<"f", "(", ")">>,
               <<"(", "a", ")">>, <<"(", "a", "+", "1", ")">>},
        post \in {<<>>, <<";">>}}

IdentifierAlphabet == {"a", "Z", "_", "-", "7", " ", "+", NonAsciiLetter}

IdentifierInputs == SeqsOf(IdentifierAlphabet, 0, MaxIdLen)

\* Digit strings around i32::MAX, with and without leading zeros
LongDigitStrings ==
    {<<"2", "1", "4", "7", "4", "8", "3", "6", "4", "7", "0", "0", "0">>,
     <<"2", "1", "4", "7", "4", "8", "3", "6", "4", "8", "0", "0", "0">>,
     <<"0", "0", "2", "1", "4", "7", "4", "8", "3", "6", "4", "7", "9">>,
     <<"9", "9", "9", "9", "9", "9", "9", "9", "9", "9", "9", "9", "9">>,
     <<"4", "2", "9", "4", "9", "6", "7", "2", "9", "6", "0", "0", "0">>,
     <<"0", "0", "0", "0", "0", "0", "0", "0", "0", "0", "0", "0", "1">>}

NumberInputs ==
    {SubSeq(ds, 1, n) \o post :
        ds \in LongDigitStrings, n \in 1..MaxDigits, post \in {<<>>, <<";">>}}

\* The texts parse_statement is applied to
StatementTexts ==
    ChainInputs \cup StatementInputs \cup IdentifierInputs \cup NumberInputs

ParserInputs == StatementTexts \cup CallInputs

ParserInit ==
    /\ input \in ParserInputs
    /\ pc = "start"
    /\ result = Error(1)

ParserIdle ==
    /\ input = <<>>
    /\ pc = "idle"
    /\ result = Error(1)

ParseExpression ==
    /\ pc = "start"
    /\ pc' = "parse_expression"
    /\ result' = parse_expression(input, 1)
    /\ UNCHANGED <<input, scopeVars, errVars, monoVars, typeVars, assignVars,
                   genVars>>

ParseStatement ==
    /\ pc = "start"
    /\ input \in StatementTexts
    /\ pc' = "parse_statement"
    /\ result' = parse_statement(input, 1)
    /\ UNCHANGED <<input, scopeVars, errVars, monoVars, typeVars, assignVars,
                   genVars>>

ParseIdentifier ==
    /\ pc = "start"
    /\ pc' = "parse_identifier"
    /\ result' = parse_identifier(input, 1)
    /\ UNCHANGED <<input, scopeVars, errVars, monoVars, typeVars, assignVars,
                   genVars>>

ParseNumberLiteral ==
    /\ pc = "start"
    /\ pc' = "parse_number_literal"
    /\ result' = parse_number_literal(input, 1)
    /\ UNCHANGED <<input, scopeVars, errVars, monoVars, typeVars, assignVars,
                   genVars>>

ParserNext ==
    \/ ParseExpression
    \/ ParseStatement
    \/ ParseIdentifier
    \/ ParseNumberLiteral

---------------------------------------------------------------------------
(* The scoped variables of the code generator                              *)
(* (src/src/llvm_codegen/mod.rs; Context's own methods are in context.rs)  *)

\* The deepest scope stack
MaxDepth == 3

\* The number of stack slots allocated
MaxSlots == 3

VarNames == {"x", "y"}

VarTypes == {"I32", "U64", "Ptr"}

NoLookup == [name |-> "", res |-> [st |-> "None"]]

NoScope == [n \in {} |-> 0]

\* The Value variant get_variable wraps the loaded value in
ValueOf(ty, pointer) ==
    CASE ty = "I32" -> [kind |-> "I32Value", load |-> pointer]
      [] ty = "U8" -> [kind |-> "U8Value", load |-> pointer]
      [] ty = "U32" -> [kind |-> "U32Value", load |-> pointer]
      [] ty = "U64" -> [kind |-> "U64Value", load |-> pointer]
      [] ty = "USize" -> [kind |-> "USizeValue", load |-> pointer]
      [] ty = "Ptr" -> [kind |-> "PointerValue", load |-> pointer]
      [] ty = "Void" -> [kind |-> "Void"]

VariableNotFound(name) == [kind |-> "VariableNotFound", name |-> name]

\* for scope in scopes.iter().rev(): the scopes k, k-1, ..., 1
RECURSIVE get_variable_rev(_, _, _)
get_variable_rev(sc, name, k) ==
    IF k = 0 THEN [st |-> "Err", err |-> VariableNotFound(name)]
    ELSE IF name \in DOMAIN sc[k]
         THEN [st |-> "Ok",
               value |-> ValueOf(sc[k][name].ty, sc[k][name].pointer)]
         ELSE get_variable_rev(sc, name, k - 1)

\* The same loop without .rev(): the scopes k, k+1, ..., Len(sc)
RECURSIVE get_variable_fwd(_, _, _)
get_variable_fwd(sc, name, k) ==
    IF k > Len(sc) THEN [st |-> "Err", err |-> VariableNotFound(name)]
    ELSE IF name \in DOMAIN sc[k]
         THEN [st |-> "Ok",
               value |-> ValueOf(sc[k][name].ty, sc[k][name].pointer)]
         ELSE get_variable_fwd(sc, name, k + 1)

get_variable_outermost_first(sc, name) == get_variable_fwd(sc, name, 1)

get_variable(sc, name) == get_variable_rev(sc, name, Len(sc))

\* Context::push_scope: a new, empty innermost scope
push_scope(sc) == Append(sc, NoScope)

\* Context::pop_scope: the innermost scope is dropped
pop_scope(sc) == SubSeq(sc, 1, Len(sc) - 1)

\* Context::set_variable: the binding goes into the innermost scope and
\* replaces a binding of the name there
set_variable(sc, name, ty, pointer) ==
    [sc EXCEPT ![Len(sc)] =
        [n \in DOMAIN sc[Len(sc)] \cup {name} |->
            IF n = name THEN [ty |-> ty, pointer |-> pointer]
            ELSE sc[Len(sc)][n]]]

ScopesInit ==
    /\ scopes = <<>>
    /\ nextPtr = 1
    /\ lastPopped = NoScope
    /\ looked = NoLookup

ScopesIdle ==
    /\ scopes = <<>>
    /\ nextPtr = 0
    /\ lastPopped = NoScope
    /\ looked = NoLookup

PushScope ==
    /\ Len(scopes) < MaxDepth
    /\ scopes' = push_scope(scopes)
    /\ looked' = NoLookup
    /\ UNCHANGED <<nextPtr, lastPopped>>
    /\ UNCHANGED <<parserVars, errVars, monoVars, typeVars, assignVars,
                   genVars>>

PopScope ==
    /\ Len(scopes) > 0
    /\ lastPopped' = scopes[Len(scopes)]
    /\ scopes' = pop_scope(scopes)
    /\ looked' = NoLookup
    /\ UNCHANGED nextPtr
    /\ UNCHANGED <<parserVars, errVars, monoVars, typeVars, assignVars,
                   genVars>>

\* build_alloca, then set_variable(name, ty, allocated_pointer)
SetVariable ==
    /\ Len(scopes) > 0
    /\ nextPtr <= MaxSlots
    /\ \E name \in VarNames, ty \in VarTypes :
          scopes' = set_variable(scopes, name, ty, nextPtr)
    /\ nextPtr' = nextPtr + 1
    /\ looked' = NoLookup
    /\ UNCHANGED lastPopped
    /\ UNCHANGED <<parserVars, errVars, monoVars, typeVars, assignVars,
                   genVars>>

GetVariable ==
    /\ \E name \in VarNames :
          looked' = [name |-> name, res |-> get_variable(scopes, name)]
    /\ UNCHANGED <<scopes, nextPtr, lastPopped>>
    /\ UNCHANGED <<parserVars, errVars, monoVars, typeVars, assignVars,
                   genVars>>

ScopesNext ==
    \/ PushScope
    \/ PopScope
    \/ SetVariable
    \/ GetVariable

---------------------------------------------------------------------------
(* Error contexts (src/src/resolver/error.rs)                              *)

\* The deepest nesting of error_context! invocations
MaxFrames == 3

ContextTypes ==
    {"Function", "ReturnStatement", "AsignStatement", "CallExpression"}

RootErrorKinds ==
    {[kind |-> "VariableNotFound", name |-> "y"],
     [kind |-> "TypeMismatch", expected |-> "i32", actual |-> "u8"]}

OkValues == {"v1", "v2"}

Context(ct) == [kind |-> "Context", context |-> ct]

\* CompileError::from_error_kind
from_error_kind(kind) == [errors |-> <<kind>>]

\* other.errors.insert(0, kind) in place of other.errors.push(kind)
append_in_front(kind, other) == [errors |-> <<kind>> \o other.errors]

\* CompileError::append: other.errors.push(kind)
append(kind, other) == [errors |-> Append(other.errors, kind)]

\* error_context!(context_type, generator_block)
error_context(ct, r) ==
    IF r.st = "Ok" THEN r
    ELSE [st |-> "Err", err |-> append(Context(ct), r.err)]

Running == [st |-> "Running"]

ErrInit ==
    /\ outcome = Running
    /\ ctxStack = <<>>
    /\ openAtFail = <<>>

ErrIdle ==
    /\ outcome = [st |-> "Idle"]
    /\ ctxStack = <<>>
    /\ openAtFail = <<>>

\* The generator block of an error_context! starts: a function, a
\* statement or an expression begins to be resolved, either first or after
\* a sibling that returned Ok.
EnterContext ==
    /\ outcome.st \in {"Running", "Ok"}
    /\ Len(ctxStack) < MaxFrames
    /\ \E ct \in ContextTypes : ctxStack' = Append(ctxStack, ct)
    /\ outcome' = Running
    /\ UNCHANGED openAtFail
    /\ UNCHANGED <<parserVars, scopeVars, monoVars, typeVars, assignVars,
                   genVars>>

\* The innermost block evaluates to Ok(ret)
Succeed ==
    /\ outcome.st = "Running"
    /\ \E v \in OkValues : outcome' = [st |-> "Ok", val |-> v]
    /\ UNCHANGED <<ctxStack, openAtFail>>
    /\ UNCHANGED <<parserVars, scopeVars, monoVars, typeVars, assignVars,
                   genVars>>

\* The innermost block evaluates to Err(CompileError::from_error_kind(..))
Fail ==
    /\ outcome.st = "Running"
    /\ \E kind \in RootErrorKinds :
          outcome' = [st |-> "Err", err |-> from_error_kind(kind)]
    /\ openAtFail' = ctxStack
    /\ UNCHANGED ctxStack
    /\ UNCHANGED <<parserVars, scopeVars, monoVars, typeVars, assignVars,
                   genVars>>

\* The innermost error_context! matches on the result of its block
LeaveContext ==
    /\ outcome.st \in {"Ok", "Err"}
    /\ ctxStack # <<>>
    /\ outcome' = error_context(ctxStack[Len(ctxStack)], outcome)
    /\ ctxStack' = SubSeq(ctxStack, 1, Len(ctxStack) - 1)
    /\ UNCHANGED openAtFail
    /\ UNCHANGED <<parserVars, scopeVars, monoVars, typeVars, assignVars,
                   genVars>>

ErrNext ==
    \/ EnterContext
    \/ Succeed
    \/ Fail
    \/ LeaveContext

---------------------------------------------------------------------------
(* The printed form of an unresolved type (src/src/ast.rs)                 *)

\* The most type arguments of a type reference
MaxTypeArgs == 2

TypeNameSet == {<<"a">>, <<"b">>, <<"a", "b">>, <<"P">>}

TypeRef(name, generic_args) ==
    [kind |-> "TypeRef", name |-> name, generic_args |-> generic_args]

Ptr(inner) == [kind |-> "Ptr", inner |-> inner]

\* Type references without type arguments, and pointers to them
PlainTypes == {TypeRef(n, None) : n \in TypeNameSet}

ArgumentTypes == PlainTypes \cup {Ptr(ty) : ty \in PlainTypes}

\* ... and type references with up to MaxTypeArgs type arguments
GenericTypes ==
    {TypeRef(n, Some(args)) :
        n \in {<<"a">>, <<"P">>},
        args \in UNION {[1..k -> ArgumentTypes] : k \in 0..MaxTypeArgs}}

UnresolvedTypes == ArgumentTypes \cup GenericTypes

RECURSIVE fmt(_)
RECURSIVE fmt_args(_, _)

\* for arg in args { write!(f, "{}", arg)?; }
fmt_args(args, k) ==
    IF k > Len(args) THEN <<>> ELSE fmt(args[k]) \o fmt_args(args, k + 1)

\* impl Display for UnresolvedType
fmt(ty) ==
    IF ty.kind = "TypeRef"
    THEN ty.name \o (IF ty.generic_args # None
                     THEN <<"<">> \o fmt_args(ty.generic_args[1], 1) \o <<">">>
                     ELSE <<>>)
    ELSE <<"[">> \o fmt(ty.inner) \o <<"]">>

TypesInit ==
    /\ tyPair \in UnresolvedTypes \X UnresolvedTypes
    /\ printed = <<None, None>>

TypesIdle ==
    /\ tyPair = <<>>
    /\ printed = <<>>

\* format!("{}", ty) of the first type
PrintFirst ==
    /\ printed[1] = None
    /\ printed' = [printed EXCEPT ![1] = Some(fmt(tyPair[1]))]
    /\ UNCHANGED tyPair
    /\ UNCHANGED <<parserVars, scopeVars, errVars, monoVars, assignVars,
                   genVars>>

\* format!("{}", ty) of the second type
PrintSecond ==
    /\ printed[2] = None
    /\ printed' = [printed EXCEPT ![2] = Some(fmt(tyPair[2]))]
    /\ UNCHANGED tyPair
    /\ UNCHANGED <<parserVars, scopeVars, errVars, monoVars, assignVars,
                   genVars>>

TypesNext ==
    \/ PrintFirst
    \/ PrintSecond

---------------------------------------------------------------------------
(* The resolution of an assignment                                         *)
(* (src/src/resolver/expression/assignment.rs)                             *)
(* A resolved type is the sequence of its pointer layers and its base:     *)
(* <<"Ptr", "Ptr", "U8">> is Ptr(Ptr(U8)).                                 *)

\* The most deref levels of an assignment target
MaxDeref == 2

IntegerTypeNames == {"U8", "U32", "U64", "I32", "I64", "USize"}

is_integer_type(ty) == Len(ty) = 1 /\ ty[1] \in IntegerTypeNames

NumberLiteral(lexeme) == [kind |-> "NumberLiteral", value |-> lexeme]

VariableRefExpr(name) == [kind |-> "VariableRef", name |-> name]

\* resolve_expression on a number literal or on a reference to a variable
\* in scope, under an Option<&ResolvedType> annotation: a literal adopts an
\* integer annotation and is I32 otherwise; a reference has its variable's
\* type.
resolve_expression(env, expr, annotation) ==
    IF expr.kind = "NumberLiteral"
    THEN [ty |-> IF annotation # None /\ is_integer_type(annotation[1])
                 THEN annotation[1]
                 ELSE <<"I32">>,
          kind |-> expr]
    ELSE [ty |-> env[expr.name], kind |-> expr]

\* Option::map over the index expression
resolve_index_access(env, index_access) ==
    IF index_access = None THEN None
    ELSE Some(resolve_expression(env, index_access[1], Some(<<"USize">>)))

\* The target's type after deref_count derefs and the optional index, <<>>
\* when the target has too few pointer layers
TargetType(env, a) ==
    LET layers == a.deref_count + (IF a.index_access = None THEN 0 ELSE 1)
        ty == env[a.name]
    IN  IF Len(ty) > layers THEN SubSeq(ty, layers + 1, Len(ty)) ELSE <<>>

\* The right-hand side is resolved under the annotation None, the index
\* under Some(&ResolvedType::USize); the assignment itself has type Void.
resolve_assignment(env, a) ==
    [st |-> "Ok",
     val |-> [ty |-> <<"Void">>,
              kind |-> [kind |-> "Assignment",
                        name |-> a.name,
                        value |-> resolve_expression(env, a.expression, None),
                        deref_count |-> a.deref_count,
                        index_access |->
                            resolve_index_access(env, a.index_access)]]]

\* The variables in scope: an integer x, pointers p and q to it, an index i
Environments ==
    {[x |-> <<b>>, p |-> <<"Ptr", b>>, q |-> <<"Ptr", "Ptr", b>>,
      i |-> <<"USize">>, n |-> <<"I32">>] : b \in {"U64", "U8", "I32"}}

AssignExprs ==
    [name : {"x", "p", "q"},
     deref_count : 0..MaxDeref,
     index_access : {None, Some(NumberLiteral(<<"0">>)),
                     Some(VariableRefExpr("i"))},
     expression : {NumberLiteral(<<"5">>), VariableRefExpr("n"),
                   VariableRefExpr("x")}]

NotResolved == [st |-> "None"]

AssignInit ==
    /\ varTypes \in Environments
    /\ assignment \in AssignExprs
    /\ resolved = NotResolved

AssignIdle ==
    /\ varTypes = <<>>
    /\ assignment = <<>>
    /\ resolved = NotResolved

ResolveAssignment ==
    /\ resolved = NotResolved
    /\ resolved' = resolve_assignment(varTypes, assignment)
    /\ UNCHANGED <<varTypes, assignment>>
    /\ UNCHANGED <<parserVars, scopeVars, errVars, monoVars, typeVars,
                   genVars>>

AssignNext == ResolveAssignment

---------------------------------------------------------------------------
(* The monomorphization of generic functions.  The resolver's call         *)
(* resolution is described by the specification only (sections 4.2 and 9): *)
(* an instance is memoized under its mangled name, and a signature-only    *)
(* entry is inserted before its body is resolved.                          *)

GenericInstances ==
    {<<"id", <<"i32">>>>, <<"id", <<"u8">>>>,
     <<"rec", <<"i32">>>>, <<"rec", <<"u8">>>>,
     <<"pair", <<"i32", "u8">>>>}

RECURSIVE JoinComma(_, _)
JoinComma(targs, k) ==
    IF k > Len(targs) THEN <<>>
    ELSE (IF k > 1 THEN <<",">> ELSE <<>>) \o <<targs[k]>>
         \o JoinComma(targs, k + 1)

\* name<T1,T2,...>
MangledName(inst) == <<inst[1], "<">> \o JoinComma(inst[2], 1) \o <<">">>

MangledNames == {MangledName(inst) : inst \in GenericInstances}

\* The signature of an instance: its generic parameters replaced by the
\* type arguments
SignatureOf(inst) == [name |-> MangledName(inst), type_args |-> inst[2]]

\* NotStarted, Resolving or Resolved
InstanceState(tbl, key) ==
    IF key \notin DOMAIN tbl THEN "NotStarted" ELSE tbl[key].state

\* The table left as it is when a body starts to be resolved
insert_nothing(tbl, inst) == tbl

\* The signature-only entry inserted before the body is resolved
insert_signature(tbl, inst) ==
    [key \in DOMAIN tbl \cup {MangledName(inst)} |->
        IF key = MangledName(inst)
        THEN [sig |-> SignatureOf(inst), state |-> "Resolving"]
        ELSE tbl[key]]

\* The entry completed with the resolved body
insert_resolved(tbl, key) == [tbl EXCEPT ![key].state = "Resolved"]

MonoInit ==
    /\ table = <<>>
    /\ callStack = <<>>
    /\ bodyRuns = [key \in MangledNames |-> 0]
    /\ requested = {}
    /\ lastCall = [key |-> <<>>, how |-> "none"]

MonoIdle ==
    /\ table = <<>>
    /\ callStack = <<>>
    /\ bodyRuns = <<>>
    /\ requested = {}
    /\ lastCall = [key |-> <<>>, how |-> "idle"]

\* A call with type arguments to an instance that is not in the table: the
\* signature is inserted and the body begins to be resolved.
CallNewInstance ==
    /\ \E inst \in GenericInstances :
          /\ InstanceState(table, MangledName(inst)) = "NotStarted"
          /\ table' = insert_signature(table, inst)
          /\ callStack' = Append(callStack, MangledName(inst))
          /\ bodyRuns' = [bodyRuns EXCEPT ![MangledName(inst)] = @ + 1]
          /\ requested' = requested \cup {inst}
          /\ lastCall' = [key |-> MangledName(inst), how |-> "body"]
    /\ UNCHANGED <<parserVars, scopeVars, errVars, typeVars, assignVars,
                   genVars>>

\* A call to an instance that is in the table, Resolving (a recursive call)
\* or Resolved: its signature is used.
CallKnownInstance ==
    /\ \E inst \in GenericInstances :
          /\ InstanceState(table, MangledName(inst)) # "NotStarted"
          /\ requested' = requested \cup {inst}
          /\ lastCall' = [key |-> MangledName(inst),
                          how |-> IF table[MangledName(inst)].state = "Resolving"
                                  THEN "in-flight signature"
                                  ELSE "memoized"]
    /\ UNCHANGED <<table, callStack, bodyRuns>>
    /\ UNCHANGED <<parserVars, scopeVars, errVars, typeVars, assignVars,
                   genVars>>

\* The body of the instance on top of the stack is resolved.
FinishBody ==
    /\ callStack # <<>>
    /\ table' = insert_resolved(table, callStack[Len(callStack)])
    /\ callStack' = SubSeq(callStack, 1, Len(callStack) - 1)
    /\ lastCall' = [key |-> callStack[Len(callStack)], how |-> "finished"]
    /\ UNCHANGED <<bodyRuns, requested>>
    /\ UNCHANGED <<parserVars, scopeVars, errVars, typeVars, assignVars,
                   genVars>>

MonoNext ==
    \/ CallNewInstance
    \/ CallKnownInstance
    \/ FinishBody

---------------------------------------------------------------------------
(* The top-level parsers: parse_function_decl of                           *)
(* src/src/parser/toplevel.rs, and parse_function_decl, parse_block,       *)
(* parse_function and parse_module of src/src/parser.rs.  The token        *)
(* parsers fn_token and colon (parser/token.rs) and parse_type             *)
(* (parser/ty.rs) follow the grammar of the specification: a token is its  *)
(* literal, a type is IDENT or "[" type "]" (type arguments do not occur   *)
(* in the texts parsed here).                                              *)

lparen == Char("(")

rparen == Char(")")

lbracket == Char("{")

rbracket == Char("}")

comma == Char(",")

fn_token == Tag(<<"f", "n">>)

colon == Char(":")

FunctionDecl(name, params) == [name |-> name, params |-> params]

ToplevelFunctionDecl(name, params, return_type) ==
    [name |-> name, params |-> params, return_type |-> return_type]

Function(decl, body) == [decl |-> decl, body |-> body]

Module(functions) == [functions |-> functions]

\* type := IDENT | "[" type "]"
parse_type(s, i) ==
    LET p == Run(Delimited(Char("["), Fn("parse_type"), Char("]")), s, i)
        n == parse_identifier(s, i)
    IN  CASE p.st = "Ok" -> Ok(p.pos, Ptr(p.val))
          [] p.st = "Panic" -> p
          [] n.st = "Ok" -> Ok(n.pos, TypeRef(n.val, None))
          [] OTHER -> n

\* map(permutation((parse_identifier, skip0, colon, skip0, parse_type)),
\*     |(name, _, _, _, ty)| (ty, name))
toplevel_parameter(s, i) ==
    LET r == Run(Permutation(<<Fn("parse_identifier"), Fn("skip0"), colon,
                               Fn("skip0"), Fn("parse_type")>>), s, i)
    IN  IF r.st # "Ok" THEN r ELSE Mapped(r, <<r.val[5], r.val[1]>>)

\* map(permutation((space0, colon, space0, parse_type)), |(_, _, _, ty)| ty)
toplevel_return_type(s, i) ==
    LET r == Run(Permutation(<<Fn("space0"), colon, Fn("space0"),
                               Fn("parse_type")>>), s, i)
    IN  IF r.st # "Ok" THEN r ELSE Mapped(r, r.val[4])

\* parse_function_decl of parser/toplevel.rs; context(..) only names the
\* error
toplevel_parse_function_decl(s, i) ==
    LET r == located(Permutation(
                 <<fn_token,
                   Delimited(Fn("multispace0"), Fn("parse_identifier"),
                             Fn("multispace0")),
                   Delimited(lparen,
                             Delimited(Fn("multispace0"),
                                       SeparatedList0(comma,
                                           Fn("toplevel_parameter")),
                                       Fn("multispace0")),
                             rparen),
                   Fn("toplevel_return_type")>>), s, i)
    IN  IF r.st # "Ok" THEN r
        ELSE MappedLocated(r, ToplevelFunctionDecl(r.val.value[2],
                                                   r.val.value[3],
                                                   r.val.value[4]))

\* parse_argument of parser.rs: skip0, then (tag("int"), multispace1,
\* parse_identifier)
parse_argument(s, i) ==
    LET r0 == skip0(s, i)
        r == Run(Permutation(<<Tag(<<"i", "n", "t">>), Fn("multispace1"),
                               Fn("parse_identifier")>>), s, r0.pos)
    IN  CASE r0.st # "Ok" -> r0
          [] r.st # "Ok" -> [r EXCEPT !.pos = i]
          [] OTHER -> Ok(r.pos, r.val[3])

parse_argument_list(s, i) ==
    LET r0 == skip0(s, i)
        r == Run(Delimited(lparen,
                           Delimited(Fn("multispace0"),
                                     SeparatedList0(comma,
                                                    Fn("parse_argument")),
                                     Fn("multispace0")),
                           rparen), s, r0.pos)
    IN  CASE r0.st # "Ok" -> r0
          [] r.st # "Ok" -> [r EXCEPT !.pos = i]
          [] OTHER -> r

\* parse_function_decl of parser.rs
parse_function_decl(s, i) ==
    LET r0 == skip0(s, i)
        r == Run(Permutation(<<Tag(<<"i", "n", "t">>),
                               Delimited(Fn("multispace0"),
                                         Fn("parse_identifier"),
                                         Fn("multispace0")),
                               Fn("parse_argument_list")>>), s, r0.pos)
    IN  CASE r0.st # "Ok" -> r0
          [] r.st # "Ok" -> [r EXCEPT !.pos = i]
          [] OTHER -> Ok(r.pos, FunctionDecl(r.val[2], r.val[3]))

\* map(parse_statement, |loc_stmt| loc_stmt.value)
parse_block_statement(s, i) ==
    LET r == parse_statement(s, i)
    IN  IF r.st # "Ok" THEN r ELSE Mapped(r, r.val.value)

parse_block(s, i) ==
    Run(Delimited(lbracket,
                  Many0(Delimited(Fn("skip0"), Fn("parse_block_statement"),
                                  Fn("skip0"))),
                  rbracket), s, i)

parse_function(s, i) ==
    LET r == Run(Permutation(<<Fn("parse_function_decl"), Fn("skip0"),
                               Fn("parse_block")>>), s, i)
    IN  IF r.st # "Ok" THEN r ELSE Mapped(r, Function(r.val[1], r.val[3]))

\* many_till(f, g): g is tried first; when it fails with Error, f must
\* succeed and consume something
ManyTillFrom(f, g, s, i, acc) ==
    LET rg == Run(g, s, i)
        rf == Run(f, s, i)
    IN  CASE rg.st = "Ok" -> Ok(rg.pos, <<acc, rg.val>>)
          [] rg.st # "Error" -> rg
          [] rf.st # "Ok" -> rf
          [] rf.pos = i -> Error(i)
          [] OTHER -> ManyTillFrom(f, g, s, rf.pos, Append(acc, rf.val))

parse_module(s, i) ==
    LET r == ManyTillFrom(Delimited(Fn("skip0"), Fn("parse_function"),
                                    Fn("skip0")),
                          Fn("eof"), s, i, <<>>)
    IN  IF r.st # "Ok" THEN r ELSE Mapped(r, Module(r.val[1]))

---------------------------------------------------------------------------
(* The top-level parsers, the call parser, located and skip0 as a state    *)
(* machine: a source text is chosen, then one of them is applied to it.    *)

\* The tokens of the declaration  fn f(a:i,b:u):v
DeclTokens ==
    <<<<"f", "n">>, <<"f">>, <<"(">>, <<"a">>, <<":">>, <<"i">>, <<",">>,
      <<"b">>, <<":">>, <<"u">>, <<")">>, <<":">>, <<"v">>>>

\* What may stand between two adjacent tokens: whitespace, a newline, a
\* comment
GapFillers == {<<" ">>, <<"\n">>, <<"/", "/", "c", "\n">>}

\* The gap after token k of the declaration, with filler f in gap g; "fn"
\* and the name are a space apart when nothing else is between them
GapText(k, g, f) ==
    IF k = g THEN f ELSE IF k = 1 THEN <<" ">> ELSE <<>>

RECURSIVE DeclTextFrom(_, _, _)
DeclTextFrom(k, g, f) ==
    IF k = Len(DeclTokens) THEN DeclTokens[k]
    ELSE DeclTokens[k] \o GapText(k, g, f) \o DeclTextFrom(k + 1, g, f)

\* The declaration with the filler f in gap g (g = 0: in no gap)
DeclText(g, f) == DeclTextFrom(1, g, f)

GapInputs ==
    {DeclText(g, f) : g \in 0..(Len(DeclTokens) - 1), f \in GapFillers}

\* Declarations with no, one and two parameters, and broken ones
OtherDeclInputs ==
    {<<"f", "n", " ", "f", "(", ")", ":", "v">>,
     <<"f", "n", " ", "f", "(", "a", ":", "i", ")", ":", "v">>,
     <<"f", "n", " ", "f", "(", "a", ":", "[", "i", "]", ")", ":", "[", "v", "]">>,
     <<"f", "n", " ", "f", "(", " ", "a", ":", "i", " ", ",", " ", "b", ":", "u", " ", ")", ":", "v">>,
     <<"f", "n", " ", "f", "(", "a", ":", "i", ")">>,
     <<"f", "(", "a", ":", "i", ")", ":", "v">>,
     <<"f", "n", " ", "(", "a", ":", "i", ")", ":", "v">>,
     <<"f", "n", " ", "f", "(", "a", " ", "i", ")", ":", "v">>,
     <<"f", "n", " ", "f", "(", "a", ":", "i", ",", "b", ")", ":", "v">>}

\* Parameter lists that end with a comma
TrailingCommaDecls ==
    {<<"f", "n", " ", "f", "(", "a", ":", "i", ",", ")", ":", "v">>,
     <<"f", "n", " ", "f", "(", "a", ":", "i", ",", "b", ":", "u", ",", ")", ":", "v">>,
     <<"f", "n", " ", "f", "(", "a", ":", "i", ",", " ", ")", ":", "v">>,
     <<"f", "n", " ", "f", "(", ",", ")", ":", "v">>}

DeclInputs == GapInputs \cup OtherDeclInputs \cup TrailingCommaDecls

\* Argument lists that end with a comma
TrailingCommaCalls ==
    {<<"f", "(", "1", ",", ")">>, <<"f", "(", "1", ",", "a", ",", ")">>,
     <<"f", "(", "a", ",", " ", ")">>, <<"f", "(", ",", ")">>}

\* Argument lists that do not, and broken ones
OtherCalls ==
    {<<"f", "(", ")">>, <<"f", "(", "1", ")">>,
     <<"f", "(", "1", ",", "a", ")">>,
     <<"f", "(", "1", ",", " ", "a", ")">>, <<"f", "(", " ", ")">>,
     <<"f", "(", "1">>, <<"f", " ", "1", ")">>,
     <<"f", "(", "1", " ", "a", ")">>}

CallListInputs == TrailingCommaCalls \cup OtherCalls

\* Texts of whitespace and comments only
BlankModules ==
    {<<>>, <<" ">>, <<"\n">>, <<" ", "\n", " ">>, <<"/", "/">>,
     <<"/", "/", "c">>, <<"/", "/", "c", "\n">>,
     <<"/", "/", "c", "\n", " ">>, <<" ", "/", "/", "c", "\n">>,
     <<"\n", "\n">>}

\* Texts of one or two functions
FunctionModules ==
    {<<"i", "n", "t", " ", "f", "(", ")", "{", "}">>,
     <<"i", "n", "t", " ", "f", "(", ")", "{", "}", " ">>,
     <<" ", "i", "n", "t", " ", "f", "(", ")", "{", "}">>,
     <<"i", "n", "t", " ", "f", "(", ")", "{", "}", "\n">>,
     <<"i", "n", "t", " ", "f", "(", ")", "{", "}", "/", "/", "c">>,
     <<"/", "/", "c", "\n", "i", "n", "t", " ", "f", "(", ")", "{", "}">>,
     <<"i", "n", "t", " ", "f", "(", ")", "{", "}", "i", "n", "t", " ", "g", "(", ")", "{", "}">>,
     <<"i", "n", "t", " ", "f", "(", ")", "{", "}", "\n", "i", "n", "t", " ", "g", "(", "i", "n", "t", " ", "a", ")", "{", "}">>,
     <<"i", "n", "t", " ", "f", "(", "i", "n", "t", " ", "a", ",", " ", "i", "n", "t", " ", "b", ")", "{", "}">>}

\* Texts with something left that is no function; a block with only a
\* space inside is none: many0 leaves the text at the space
BrokenModules ==
    {<<"x">>,
     <<"i", "n", "t", " ", "f", "(", ")", " ", "{", " ", "}", "\n">>,
     <<"i", "n", "t", " ", "f", "(", ")", "{", "}", "x">>,
     <<"i", "n", "t", " ", "f", "(", ")", "{", "}", " ", "x">>,
     <<"i", "n", "t", " ", "f", "(", ")">>,
     <<"i", "n", "t", " ", "f", "(", ")", "{">>,
     <<"i", "n", "t", " ", "f", "(", ")", "{", "}", "i", "n", "t">>,
     <<"i", "n", "t", " ", "f", "(", "i", "n", "t", " ", "a", ",", ")", "{", "}">>,
     <<"x", " ", "i", "n", "t", " ", "f", "(", ")", "{", "}">>}

ModuleInputs == BlankModules \cup FunctionModules \cup BrokenModules

\* The texts located and skip0 are applied to
LexAlphabet == {"1", "a", " ", "\n", "/"}

MaxLexLen == 4

LexInputs == SeqsOf(LexAlphabet, 0, MaxLexLen)

\* The parsers located is applied to
LocatedParsers ==
    [located_digit1 |-> Fn("digit1"),
     located_parse_identifier |-> Fn("parse_identifier")]

ToplevelInputs == DeclInputs \cup CallListInputs \cup ModuleInputs \cup LexInputs

ToplevelInit ==
    /\ input \in ToplevelInputs
    /\ pc = "begin"
    /\ result = Error(1)

ParseToplevelFunctionDecl ==
    /\ pc = "begin"
    /\ input \in DeclInputs
    /\ pc' = "toplevel_parse_function_decl"
    /\ result' = Run(Fn("toplevel_parse_function_decl"), input, 1)
    /\ UNCHANGED <<input, scopeVars, errVars, monoVars, typeVars, assignVars,
                   genVars>>

ParseFunctionCallExpression ==
    /\ pc = "begin"
    /\ input \in CallListInputs
    /\ pc' = "parse_function_call_expression"
    /\ result' = Run(Fn("parse_function_call_expression"), input, 1)
    /\ UNCHANGED <<input, scopeVars, errVars, monoVars, typeVars, assignVars,
                   genVars>>

ParseModule ==
    /\ pc = "begin"
    /\ input \in ModuleInputs
    /\ pc' = "parse_module"
    /\ result' = Run(Fn("parse_module"), input, 1)
    /\ UNCHANGED <<input, scopeVars, errVars, monoVars, typeVars, assignVars,
                   genVars>>

ApplyLocated ==
    /\ pc = "begin"
    /\ input \in LexInputs
    /\ \E p \in DOMAIN LocatedParsers :
          /\ pc' = p
          /\ result' = located(LocatedParsers[p], input, 1)
    /\ UNCHANGED <<input, scopeVars, errVars, monoVars, typeVars, assignVars,
                   genVars>>

Skip0 ==
    /\ pc = "begin"
    /\ input \in LexInputs
    /\ pc' = "skip0"
    /\ result' = Run(Fn("skip0"), input, 1)
    /\ UNCHANGED <<input, scopeVars, errVars, monoVars, typeVars, assignVars,
                   genVars>>

ToplevelNext ==
    \/ ParseToplevelFunctionDecl
    \/ ParseFunctionCallExpression
    \/ ParseModule
    \/ ApplyLocated
    \/ Skip0

---------------------------------------------------------------------------
(* The lowering of expressions, statements and functions                   *)
(* (src/src/builder/expression.rs, src/src/builder/statement.rs,           *)
(* src/src/llvm_codegen/toplevel.rs, src/src/llvm_codegen/mod.rs)          *)
(* A lowering takes the scopes sc and the instructions b built so far and  *)
(* yields [st, value, b]: st is "Ok", "Err" (a CompileError, in value) or  *)
(* "Panic"; b is what the builder holds afterwards.  A value is            *)
(* [kind, ty, at]: at is <<"const", n>> or <<"reg", k>>, k the index of    *)
(* the instruction that defines it.  The n of a constant is a 64-bit word, *)
(* held as four 16-bit limbs, the lowest first.                            *)

\* The functions generated in one run
MaxFunctions == 2

\* The largest number literal
MaxLiteral == 3

\* The longest of the number literals taken digit by digit
MaxShortLiteral == 2

GenOk(value, b) == [st |-> "Ok", value |-> value, b |-> b]

GenErr(err, b) == [st |-> "Err", value |-> err, b |-> b]

GenPanic(b) == [st |-> "Panic", value |-> <<>>, b |-> b]

ResolvedExpression(kind, ty) == [ty |-> ty, kind |-> kind]

\* The integer type of the target's pointer width, a 64-bit target
ptr_sized_int_type == "i64"

\* i8_type(), i32_type(), i64_type(), ptr_sized_int_type of eval_u8 ...
\* eval_usize
IntTypeOf(name) ==
    CASE name = "U8" -> "i8"
      [] name \in {"U32", "I32"} -> "i32"
      [] name \in {"U64", "I64"} -> "i64"
      [] name = "USize" -> ptr_sized_int_type

IntBits(llty) == CASE llty = "i8" -> 8 [] llty = "i32" -> 32 [] llty = "i64" -> 64

\* The largest value str.parse::<T>() accepts, digit by digit
MaxDigitsOf(name) ==
    CASE name = "U8" -> <<"2", "5", "5">>
      [] name = "I32" -> I32MaxDigits
      [] name = "U32" -> <<"4", "2", "9", "4", "9", "6", "7", "2", "9", "5">>
      [] name = "I64" ->
           <<"9", "2", "2", "3", "3", "7", "2", "0", "3", "6", "8", "5",
             "4", "7", "7", "5", "8", "0", "7">>
      [] name \in {"U64", "USize"} ->
           <<"1", "8", "4", "4", "6", "7", "4", "4", "0", "7", "3", "7",
             "0", "9", "5", "5", "1", "6", "1", "5">>

ParsesAs(name, ds) ==
    LET t == StripZeros(ds)
    IN  /\ ds # <<>>
        /\ \/ Len(t) < Len(MaxDigitsOf(name))
           \/ /\ Len(t) = Len(MaxDigitsOf(name))
              /\ DigitsLeq(t, MaxDigitsOf(name))

\* The bits of the u64 of n as u64
U64Bits == 64

LimbBase == 2 ^ 16

Limbs == U64Bits \div 16

ZeroU64 == [k \in 1..Limbs |-> 0]

\* The 64-bit word of a number below 2^31
U64(n) == [k \in 1..Limbs |->
             CASE k = 1 -> n % LimbBase
               [] k = 2 -> n \div LimbBase
               [] OTHER -> 0]

\* The bits of limb k that lie below bit position bits
LimbBits(k, bits) ==
    IF bits <= 16 * (k - 1) THEN 0
    ELSE IF bits >= 16 * k THEN 16
    ELSE bits - 16 * (k - 1)

\* The word is below 2^bits
FitsBits(n, bits) == \A k \in 1..Limbs : n[k] < 2 ^ LimbBits(k, bits)

\* The low bits of the word
TruncateBits(n, bits) == [k \in 1..Limbs |-> n[k] % (2 ^ LimbBits(k, bits))]

\* n * m + c from limb k on; the last element is what is carried out of
\* the word
RECURSIVE MulAddFrom(_, _, _, _)
MulAddFrom(n, m, c, k) ==
    IF k > Limbs THEN <<c>>
    ELSE <<(n[k] * m + c) % LimbBase>>
           \o MulAddFrom(n, m, (n[k] * m + c) \div LimbBase, k + 1)

\* l + r from limb k on, wrapping at 2^64
RECURSIVE AddFrom(_, _, _, _)
AddFrom(l, r, c, k) ==
    IF k > Limbs THEN <<>>
    ELSE <<(l[k] + r[k] + c) % LimbBase>>
           \o AddFrom(l, r, (l[k] + r[k] + c) \div LimbBase, k + 1)

wrapping_add(l, r) == AddFrom(l, r, 0, 1)

\* The value bits of str.parse::<T>(): all bits of an unsigned type, all
\* but the sign bit of a signed one (a literal has no sign)
ParseBits(name) ==
    CASE name = "U8" -> 8
      [] name = "I32" -> 31
      [] name = "U32" -> 32
      [] name = "I64" -> 63
      [] name \in {"U64", "USize"} -> 64

\* str.parse::<T>() after the first digits gave acc: every digit is a
\* checked multiplication by ten and a checked addition
RECURSIVE from_str_radix(_, _, _)
from_str_radix(ds, bits, acc) ==
    LET Checked(r) ==
            IF r[Limbs + 1] # 0 \/ ~FitsBits(SubSeq(r, 1, Limbs), bits)
            THEN [st |-> "Err", err |-> "PosOverflow"]
            ELSE from_str_radix(Tail(ds), bits, SubSeq(r, 1, Limbs))
    IN  IF ds = <<>> THEN [st |-> "Ok", n |-> acc]
        ELSE IF Head(ds) \notin Digits
             THEN [st |-> "Err", err |-> "InvalidDigit"]
             ELSE Checked(MulAddFrom(acc, 10, DigitValue(Head(ds)), 1))

\* value_str.parse::<T>()
parse(name, value_str) ==
    IF value_str = <<>> THEN [st |-> "Err", err |-> "Empty"]
    ELSE from_str_radix(value_str, ParseBits(name), ZeroU64)

\* IntType::const_int(n, true): the low bits of the word n, as many as
\* the type has
const_int(llty, n) ==
    [kind |-> "IntValue", ty |-> llty,
     at |-> <<"const", TruncateBits(n, IntBits(llty))>>]

RegValue(kind, llty, k) == [kind |-> kind, ty |-> llty, at |-> <<"reg", k>>]

IsConst(v) == v.at[1] = "const"

Inst(op, ty, args) == [op |-> op, ty |-> ty, args |-> args]

\* The type a value of a resolved type has in the target
ValueType(ty) == IF is_integer_type(ty) THEN IntTypeOf(ty[1]) ELSE "ptr"

ValueKind(ty) == IF is_integer_type(ty) THEN "IntValue" ELSE "PointerValue"

build_alloca(llty, b) == Append(b, Inst("alloca", llty, <<>>))

build_store(ptr, value, b) == Append(b, Inst("store", "void", <<ptr, value>>))

build_load(ptr, ty, b) == Append(b, Inst("load", ValueType(ty), <<ptr>>))

build_return(value, b) == Append(b, Inst("ret", "void", value))

\* build_int_add: two constants fold to a constant, anything else is an
\* add instruction
build_int_add(l, r, b) ==
    IF IsConst(l) /\ IsConst(r)
    THEN GenOk(const_int(l.ty, wrapping_add(l.at[2], r.at[2])), b)
    ELSE GenOk(RegValue("IntValue", l.ty, Len(b) + 1),
               Append(b, Inst("add", l.ty, <<l, r>>)))

\* Every type parsed as the signed type of its width
eval_number_literal_parsing_signed(integer_literal, ty, b) ==
    LET Unwrapped(parsed) ==
            IF parsed.st # "Ok" THEN GenPanic(b)
            ELSE GenOk(const_int(IntTypeOf(ty[1]), parsed.n), b)
    IN  IF ~is_integer_type(ty) THEN GenPanic(b)
        ELSE Unwrapped(IF integer_literal.value = <<>>
                       THEN [st |-> "Err", err |-> "Empty"]
                       ELSE from_str_radix(integer_literal.value,
                                           IntBits(IntTypeOf(ty[1])) - 1,
                                           ZeroU64))

\* eval_u8 ... eval_usize: parse::<T>().unwrap(), then const_int(n as u64,
\* true) of the type's integer type
eval_number_literal(integer_literal, ty, b) ==
    LET Unwrapped(parsed) ==
            IF parsed.st # "Ok" THEN GenPanic(b)
            ELSE GenOk(const_int(IntTypeOf(ty[1]), parsed.n), b)
    IN  IF ~is_integer_type(ty) THEN GenPanic(b)
        ELSE Unwrapped(parse(ty[1], integer_literal.value))

\* get_variable, then build_load(ptr, "load")
eval_variable_ref(sc, b, variable_ref, ty) ==
    LET found == get_variable(sc, variable_ref.name)
    IN  IF found.st # "Ok" THEN GenErr(found.err, b)
        ELSE GenOk(RegValue(ValueKind(ty), ValueType(ty), Len(b) + 1),
                   build_load(found.value.load, ty, b))

Signed(name) == name \in {"I32", "I64"}

\* get_cast_type(lhs, rhs): for each side the type to widen to, so that
\* two integer types of one signedness meet at the wider one
get_cast_type(lhs, rhs) ==
    IF /\ is_integer_type(lhs)
       /\ is_integer_type(rhs)
       /\ Signed(lhs[1]) = Signed(rhs[1])
       /\ IntBits(IntTypeOf(lhs[1])) # IntBits(IntTypeOf(rhs[1]))
    THEN IF IntBits(IntTypeOf(lhs[1])) < IntBits(IntTypeOf(rhs[1]))
         THEN <<Some(rhs), None>>
         ELSE <<None, Some(lhs)>>
    ELSE <<None, None>>

\* gen_try_cast: an integer value widened to the type
gen_try_cast(value, ty, b) ==
    IF value.kind # "IntValue" THEN GenPanic(b)
    ELSE IF IsConst(value) THEN GenOk(const_int(ValueType(ty), value.at[2]), b)
    ELSE GenOk(RegValue("IntValue", ValueType(ty), Len(b) + 1),
               Append(b, Inst("cast", ValueType(ty), <<value>>)))

OptCast(r, cast_type) ==
    IF r.st # "Ok" \/ cast_type = None THEN r
    ELSE gen_try_cast(r.value, cast_type[1], r.b)

RECURSIVE gen_expression(_, _, _)

\* eval_binary_expr: both sides, the casts get_cast_type asks for, then
\* the instruction of the operator; only Add of two integer values has one
eval_binary_expr(sc, b, binary_expr) ==
    LET cast_types == get_cast_type(binary_expr.lhs.ty, binary_expr.rhs.ty)
        result_type ==
            IF cast_types[2] # None THEN cast_types[2][1]
            ELSE IF cast_types[1] # None THEN cast_types[1][1]
            ELSE <<"I32">>
        Build(left, right) ==
            CASE left.st # "Ok" -> left
              [] right.st # "Ok" -> right
              [] binary_expr.op # "Add" -> GenPanic(right.b)
              [] ~is_integer_type(result_type) -> GenPanic(right.b)
              [] left.value.kind # "IntValue" -> GenPanic(right.b)
              [] right.value.kind # "IntValue" -> GenPanic(right.b)
              [] OTHER -> build_int_add(left.value, right.value, right.b)
        Cast(left, right) ==
            IF left.st # "Ok" THEN GenPanic(left.b)
            ELSE IF right.st # "Ok" THEN GenPanic(right.b)
            ELSE LET left_cast ==
                         OptCast([left EXCEPT !.b = right.b], cast_types[1])
                 IN  Build(left_cast,
                           OptCast([right EXCEPT !.b = left_cast.b],
                                   cast_types[2]))
        Rhs(left) ==
            Cast(left, gen_expression(sc, left.b, binary_expr.rhs))
    IN  Rhs(gen_expression(sc, b, binary_expr.lhs))

gen_expression(sc, b, expr) ==
    CASE expr.kind.kind = "NumberLiteral" ->
           eval_number_literal(expr.kind, expr.ty, b)
      [] expr.kind.kind = "VariableRef" ->
           eval_variable_ref(sc, b, expr.kind, expr.ty)
      [] expr.kind.kind = "BinaryExpr" -> eval_binary_expr(sc, b, expr.kind)

Return(expression) == [kind |-> "Return", expression |-> expression]

Effect(expression) == [kind |-> "Effect", expression |-> expression]

\* gen_return: the expression, a stack slot and a store of the value, then
\* the return instruction (the model has no struct values)
gen_return(sc, b, ret) ==
    LET Built(r) ==
            IF r.st # "Ok" THEN r
            ELSE GenOk(None,
                       build_return(Some(r.value),
                           build_store(
                               RegValue("PointerValue", "ptr", Len(r.b) + 1),
                               r.value, build_alloca(r.value.ty, r.b))))
    IN  IF ret.expression = None THEN GenOk(None, build_return(None, b))
        ELSE Built(gen_expression(sc, b, ret.expression[1]))

gen_effect(sc, b, effect) ==
    LET r == gen_expression(sc, b, effect.expression)
    IN  IF r.st # "Ok" THEN r ELSE GenOk(None, r.b)

gen_statement(sc, b, statement) ==
    IF statement.kind = "Return" THEN gen_return(sc, b, statement)
    ELSE gen_effect(sc, b, statement)

\* Context of the code generator: the variable scopes and the function scopes
CodegenContext(sc, fsc) == [scopes |-> sc, function_scopes |-> fsc]

push_function_scope(fsc) == Append(fsc, NoScope)

pop_function_scope(fsc) == SubSeq(fsc, 1, Len(fsc) - 1)

\* i32_type().fn_type(&params, true) with one i32 for each parameter
fn_type(decl) ==
    [return_type |-> "i32",
     params |-> [k \in 1..Len(decl.params) |-> "i32"],
     var_args |-> TRUE]

\* function.get_param_iter(): parameter k of the function
Parameter(k) == [kind |-> "IntValue", ty |-> "i32", at |-> <<"param", k>>]

\* The loop over the parameters from parameter k on: a stack slot, a store
\* and a binding for each parameter that is not Void
RECURSIVE SetParameters(_, _, _, _)
SetParameters(decl, k, sc, b) ==
    IF k > Len(decl.params) THEN [scopes |-> sc, b |-> b]
    ELSE IF decl.params[k][1] = "Void"
         THEN SetParameters(decl, k + 1, sc, b)
         ELSE SetParameters(decl, k + 1,
                  set_variable(sc, decl.params[k][2], decl.params[k][1],
                               RegValue("PointerValue", "ptr", Len(b) + 1)),
                  build_store(RegValue("PointerValue", "ptr", Len(b) + 1),
                              Parameter(k), build_alloca("i32", b)))

\* for statement in body { self.gen_statement(statement)?; } from
\* statement k on
RECURSIVE GenStatements(_, _, _, _)
GenStatements(sc, body, k, b) ==
    LET After(r) ==
            IF r.st # "Ok" THEN r ELSE GenStatements(sc, body, k + 1, r.b)
    IN  IF k > Len(body) THEN GenOk(None, b)
        ELSE After(gen_statement(sc, b, body[k]))

\* gen_function: what it returns, the Context it leaves and the function
\* it added to the module
gen_function(ctx, decl, body) ==
    LET fsc == push_function_scope(ctx.function_scopes)
        AddedFunction(r) ==
            [name |-> decl.name, ty |-> fn_type(decl),
             blocks |-> <<[name |-> "entry", insts |-> r.b]>>]
        Leave(sc, r) ==
            IF r.st # "Ok"
            THEN [st |-> r.st, err |-> r.value,
                  ctx |-> CodegenContext(sc, fsc), function |-> AddedFunction(r)]
            ELSE [st |-> "Ok", err |-> None,
                  ctx |-> CodegenContext(pop_scope(sc),
                                         pop_function_scope(fsc)),
                  function |-> AddedFunction(r)]
        Body(entered) ==
            Leave(entered.scopes,
                  GenStatements(entered.scopes, body, 1, entered.b))
    IN  Body(SetParameters(decl, 1, push_scope(ctx.scopes), <<>>))

\* The loop of gen_module from toplevel k on
RECURSIVE GenToplevels(_, _, _, _)
GenToplevels(ctx, toplevels, k, functions) ==
    LET After(r) ==
            IF r.st # "Ok"
            THEN [st |-> r.st, err |-> r.err, ctx |-> r.ctx,
                  functions |-> Append(functions, r.function)]
            ELSE GenToplevels(r.ctx, toplevels, k + 1,
                              Append(functions, r.function))
    IN  IF k > Len(toplevels)
        THEN [st |-> "Ok", err |-> None, ctx |-> ctx, functions |-> functions]
        ELSE After(gen_function(ctx, toplevels[k].decl, toplevels[k].body))

gen_module(ctx, module) ==
    LET Leave(r) ==
            IF r.st # "Ok" THEN r
            ELSE [r EXCEPT
                    !.ctx = CodegenContext(pop_scope(r.ctx.scopes),
                                pop_function_scope(r.ctx.function_scopes))]
    IN  Leave(GenToplevels(
                  CodegenContext(push_scope(ctx.scopes),
                                 push_function_scope(ctx.function_scopes)),
                  module.toplevels, 1, <<>>))

---------------------------------------------------------------------------
(* The code generator's state machine: expressions, return statements,     *)
(* functions and modules are lowered, the Context staying from one         *)
(* function to the next.                                                   *)

NotBuilt == [op |-> "none"]

Literal(n, ty) == ResolvedExpression(NumberLiteral(<<ToString(n)>>), ty)

Variable(name, ty) == ResolvedExpression(VariableRefExpr(name), ty)

BinaryOps == {"Add", "Sub", "Mul", "Div"}

Literals == {Literal(n, <<"I32">>) : n \in 1..MaxLiteral}

\* The digit string of the number after the one of ds
RECURSIVE Succ(_)
Succ(ds) ==
    IF ds = <<>> THEN <<"1">>
    ELSE IF ds[Len(ds)] = "9"
         THEN Succ(SubSeq(ds, 1, Len(ds) - 1)) \o <<"0">>
         ELSE SubSeq(ds, 1, Len(ds) - 1)
                \o <<ToString(DigitValue(ds[Len(ds)]) + 1)>>

ShortLiterals ==
    UNION {[1..n -> Digits] : n \in 1..MaxShortLiteral}

\* The largest values of the integer types (and of a signed byte), the
\* values after them, and both with a zero in front or behind
BoundaryLiterals ==
    LET maxima ==
            {MaxDigitsOf(name) : name \in IntegerTypeNames}
              \cup {<<"1", "2", "7">>}
    IN  UNION {{m, Succ(m), <<"0">> \o m, m \o <<"0">>} : m \in maxima}

NumberLiterals ==
    {ResolvedExpression(NumberLiteral(ds), <<name>>) :
        ds \in ShortLiterals \cup BoundaryLiterals,
        name \in IntegerTypeNames}

IntOperands ==
    Literals \cup {Literal(1, <<"I64">>), Variable("x", <<"I32">>)}

PtrOperands == {Variable("p", <<"Ptr", "I32">>)}

\* The type the resolver gives a binary expression: the pointer type in
\* pointer arithmetic, the wider of two integer types otherwise
BinaryType(lhs, rhs) ==
    LET cast_types == get_cast_type(lhs.ty, rhs.ty)
    IN  CASE ~is_integer_type(lhs.ty) -> lhs.ty
          [] ~is_integer_type(rhs.ty) -> rhs.ty
          [] cast_types[1] # None -> cast_types[1][1]
          [] OTHER -> lhs.ty

Binary(op, lhs, rhs) ==
    ResolvedExpression(BinaryExpr(op, lhs, rhs), BinaryType(lhs, rhs))

FlatExprs ==
    {Binary(op, l, r) :
        op \in BinaryOps, l \in IntOperands \cup PtrOperands,
        r \in IntOperands}

NestedExprs ==
    {Binary(op1, a, Binary(op2, b, c)) :
        op1 \in BinaryOps, op2 \in BinaryOps,
        a \in Literals, b \in Literals, c \in Literals}

GenExprs == IntOperands \cup PtrOperands \cup FlatExprs \cup NestedExprs

\* fn f(x: i32, p: [i32]): the function whose body the expressions and
\* return statements are lowered in
BodyDecl ==
    ToplevelFunctionDecl("f", <<<<"I32", "x">>, <<"Ptr", "p">>>>, "I32")

\* The scopes and the instructions after gen_function has set the
\* parameters of BodyDecl
InBody == SetParameters(BodyDecl, 1, push_scope(<<>>), <<>>)

Returns ==
    {Return(None)}
      \cup {Return(Some(e)) : e \in IntOperands \cup PtrOperands}
      \cup {Return(Some(Binary("Add", Variable("x", <<"I32">>), l))) :
              l \in Literals}

GenDecls ==
    {ToplevelFunctionDecl("main", <<>>, "Void"),
     ToplevelFunctionDecl("f", <<<<"I32", "x">>>>, "I32"),
     ToplevelFunctionDecl("g", <<<<"U64", "y">>, <<"Void", "v">>>>, "U64")}

GenBodies ==
    {<<>>,
     <<Return(None)>>,
     <<Return(Some(Literal(1, <<"I32">>)))>>,
     <<Return(Some(Variable("x", <<"I32">>)))>>,
     <<Effect(Variable("y", <<"U64">>)), Return(None)>>,
     <<Return(Some(Binary("Add", Variable("x", <<"I32">>),
                          Literal(1, <<"I32">>))))>>}

GenFunctions == {Function(decl, body) : decl \in GenDecls, body \in GenBodies}

GenModules ==
    {[toplevels |-> <<>>]}
      \cup {[toplevels |-> <<f>>] : f \in GenFunctions}
      \cup {[toplevels |-> <<f, g>>] :
              f \in GenFunctions,
              g \in {Function(decl, <<Return(None)>>) : decl \in GenDecls}}

GenInit ==
    /\ genPc = "ready"
    /\ genContext = CodegenContext(<<>>, <<>>)
    /\ built = NotBuilt
    /\ genCount = 0

GenIdle ==
    /\ genPc = "idle"
    /\ genContext = CodegenContext(<<>>, <<>>)
    /\ built = NotBuilt
    /\ genCount = 0

GenExpression ==
    /\ genPc = "ready"
    /\ \E expr \in GenExprs :
          built' = [op |-> "gen_expression", input |-> expr,
                    res |-> gen_expression(InBody.scopes, InBody.b, expr)]
    /\ genPc' = "gen_expression"
    /\ UNCHANGED <<genContext, genCount>>
    /\ UNCHANGED <<parserVars, scopeVars, errVars, monoVars, typeVars,
                   assignVars>>

EvalNumberLiteral ==
    /\ genPc = "ready"
    /\ \E expr \in NumberLiterals :
          built' = [op |-> "eval_number_literal", input |-> expr,
                    res |-> eval_number_literal(expr.kind, expr.ty,
                                                InBody.b)]
    /\ genPc' = "eval_number_literal"
    /\ UNCHANGED <<genContext, genCount>>
    /\ UNCHANGED <<parserVars, scopeVars, errVars, monoVars, typeVars,
                   assignVars>>

GenReturn ==
    /\ genPc = "ready"
    /\ \E ret \in Returns :
          built' = [op |-> "gen_return", input |-> ret,
                    res |-> gen_return(InBody.scopes, InBody.b, ret)]
    /\ genPc' = "gen_return"
    /\ UNCHANGED <<genContext, genCount>>
    /\ UNCHANGED <<parserVars, scopeVars, errVars, monoVars, typeVars,
                   assignVars>>

GenFunction ==
    /\ genPc \in {"ready", "gen_function"}
    /\ genCount < MaxFunctions
    /\ \E f \in GenFunctions :
          LET r == gen_function(genContext, f.decl, f.body)
          IN  /\ built' = [op |-> "gen_function", input |-> f, res |-> r]
              /\ genContext' = r.ctx
    /\ genPc' = "gen_function"
    /\ genCount' = genCount + 1
    /\ UNCHANGED <<parserVars, scopeVars, errVars, monoVars, typeVars,
                   assignVars>>

GenModule ==
    /\ genPc = "ready"
    /\ \E module \in GenModules :
          LET r == gen_module(genContext, module)
          IN  /\ built' = [op |-> "gen_module", input |-> module, res |-> r]
              /\ genContext' = r.ctx
    /\ genPc' = "gen_module"
    /\ UNCHANGED genCount
    /\ UNCHANGED <<parserVars, scopeVars, errVars, monoVars, typeVars,
                   assignVars>>

GenNext ==
    \/ GenExpression
    \/ EvalNumberLiteral
    \/ GenReturn
    \/ GenFunction
    \/ GenModule

---------------------------------------------------------------------------
(* Claims about the parser                                                 *)

\* The expression an operand character of a chain input stands for
Operand(c) == IF c \in Digits THEN IntValue(DigitValue(c)) ELSE VariableRef(<<c>>)

\* ((x0 op1 x1) op2 x2) ... opk xk
RECURSIVE LeftTree(_, _, _)
LeftTree(xs, ops, k) ==
    IF k = 0 THEN Operand(xs[1])
    ELSE BinaryExpr(BinaryOpOf(ops[k]), LeftTree(xs, ops, k - 1),
                    Operand(xs[k + 1]))

SameLevelChains ==
    SeqsOf(AdditiveChars, 0, MaxOps) \cup SeqsOf(MultiplicativeChars, 0, MaxOps)

\* '-' is an identifier character, so between letters it is an operator
\* only when whitespace separates it from them: a-b is one identifier.
IsOperatorChain(xs, sp, ops) ==
    (xs = LetterOperands /\ sp = <<>>) => \A k \in 1..Len(ops) : ops[k] # "-"

\* C1: a chain of operands joined by operators of one precedence level
\* parses, as a whole, to the left-nested tree ((x0 op1 x1) op2 x2)...,
\* e.g. a - b + c to Add(Sub(a,b),c).
C1_LeftAssociative ==
    \A xs \in {LetterOperands, DigitOperands} :
      \A sp \in {<<>>, <<" ">>} :
        \A ops \in SameLevelChains :
            (/\ pc = "parse_expression"
             /\ IsOperatorChain(xs, sp, ops)
             /\ input = ChainInput(xs, ops, sp))
            => /\ result.st = "Ok"
               /\ result.pos = Len(input) + 1
               /\ result.val.value = LeftTree(xs, ops, Len(ops))

\* C2: with one additive and one multiplicative operator, the
\* multiplicative one binds tighter on either side: x0 + x1 * x2 parses,
\* as a whole, to Add(x0, Mul(x1,x2)) and x0 * x1 + x2 to Add(Mul(x0,x1), x2).
C2_MultiplicativeBindsTighter ==
    \A xs \in {LetterOperands, DigitOperands} :
      \A sp \in {<<>>, <<" ">>} :
        \A add \in AdditiveChars, mul \in MultiplicativeChars :
          /\ (/\ pc = "parse_expression"
              /\ IsOperatorChain(xs, sp, <<add, mul>>)
              /\ input = ChainInput(xs, <<add, mul>>, sp))
             => /\ result.st = "Ok"
                /\ result.pos = Len(input) + 1
                /\ result.val.value =
                      BinaryExpr(BinaryOpOf(add), Operand(xs[1]),
                                 BinaryExpr(BinaryOpOf(mul), Operand(xs[2]),
                                            Operand(xs[3])))
          /\ (/\ pc = "parse_expression"
              /\ IsOperatorChain(xs, sp, <<mul, add>>)
              /\ input = ChainInput(xs, <<mul, add>>, sp))
             => /\ result.st = "Ok"
                /\ result.pos = Len(input) + 1
                /\ result.val.value =
                      BinaryExpr(BinaryOpOf(add),
                                 BinaryExpr(BinaryOpOf(mul), Operand(xs[1]),
                                            Operand(xs[2])),
                                 Operand(xs[3]))

\* C8: the statement `return;` parses to a Return statement without an
\* expression.
C8_BareReturn ==
    (pc = "parse_statement" /\ input = ReturnKw \o <<";">>)
    => /\ result.st = "Ok"
       /\ result.val.value = ReturnStmt(None)

IsDigitString(s) == s # <<>> /\ \A k \in 1..Len(s) : s[k] \in Digits

\* C9: parse_number_literal succeeds on every non-empty string of digits,
\* whatever its magnitude, consuming all of it: it neither fails nor
\* aborts because the value does not fit an integer type.
C9_NumberLiteralAnyMagnitude ==
    (pc = "parse_number_literal" /\ IsDigitString(input))
    => /\ result.st = "Ok"
       /\ result.pos = Len(input) + 1

\* The length of the longest prefix of s matching [A-Za-z_][A-Za-z0-9_-]*
IdentifierPrefixLen(s) ==
    IF s # <<>> /\ s[1] \in AsciiLetters \cup {"_"}
    THEN SpanEnd(s, 1, AsciiLetters \cup Digits \cup {"_", "-"}) - 1
    ELSE 0

\* C10: parse_identifier yields exactly the longest prefix matching
\* [A-Za-z_][A-Za-z0-9_-]* and fails when there is none.
C10_IdentifierShape ==
    pc = "parse_identifier"
    => IF IdentifierPrefixLen(input) = 0
       THEN result.st = "Error"
       ELSE /\ result.st = "Ok"
            /\ result.val = SubSeq(input, 1, IdentifierPrefixLen(input))

---------------------------------------------------------------------------
(* Claims about the printed form of types                                  *)

\* Base<arg1,arg2,...>, pointers as [T]
RECURSIVE Mangled(_)
RECURSIVE MangledArgs(_, _)
MangledArgs(args, k) ==
    IF k > Len(args) THEN <<>>
    ELSE (IF k > 1 THEN <<",">> ELSE <<>>) \o Mangled(args[k])
         \o MangledArgs(args, k + 1)

Mangled(ty) ==
    IF ty.kind = "TypeRef"
    THEN ty.name \o (IF ty.generic_args # None
                     THEN <<"<">> \o MangledArgs(ty.generic_args[1], 1) \o <<">">>
                     ELSE <<>>)
    ELSE <<"[">> \o Mangled(ty.inner) \o <<"]">>

\* C5: a type prints as Base<arg1,arg2,...>, the arguments separated by
\* commas, and two different types never print to the same string.
C5_PrintedFormInjective ==
    /\ \A k \in 1..2 :
          (printed # <<>> /\ printed[k] # None)
          => printed[k][1] = Mangled(tyPair[k])
    /\ (printed # <<>> /\ printed[1] # None /\ printed[2] # None
        /\ printed[1] = printed[2])
       => tyPair[1] = tyPair[2]

---------------------------------------------------------------------------
(* Claims about the resolution of assignments                              *)

\* C7: the right-hand side of an assignment is resolved under the target's
\* type after its derefs and index: a number literal assigned to a target
\* of an integer type has that type.
C7_RhsAnnotatedWithTargetType ==
    (/\ resolved.st = "Ok"
     /\ assignment.expression.kind = "NumberLiteral"
     /\ TargetType(varTypes, assignment) # <<>>
     /\ is_integer_type(TargetType(varTypes, assignment)))
    => resolved.val.kind.value.ty = TargetType(varTypes, assignment)

---------------------------------------------------------------------------
(* Claims about the scoped variables                                       *)

\* The scopes that bind the name
Holders(sc, name) == {k \in 1..Len(sc) : name \in DOMAIN sc[k]}

\* C3: a lookup returns the binding of the name in the innermost scope that
\* holds it, loaded from that binding's slot and typed by its type; it
\* never returns a binding of a scope that was popped; a name bound in no
\* scope yields VariableNotFound.
C3_InnermostBindingWins ==
    looked # NoLookup
    => LET name == looked.name
           holders == Holders(scopes, name)
       IN  IF holders = {}
           THEN looked.res = [st |-> "Err", err |-> VariableNotFound(name)]
           ELSE LET b == scopes[SetMax(holders)][name]
                IN  /\ looked.res.st = "Ok"
                    /\ looked.res.value = ValueOf(b.ty, b.pointer)
                    /\ name \in DOMAIN lastPopped
                       => looked.res.value.load # lastPopped[name].pointer

\* A lookup of a name after the inner scope that shadowed it was popped:
\* the outer, older binding is returned.
C3_Witness ==
    /\ looked # NoLookup
    /\ looked.res.st = "Ok"
    /\ looked.name \in DOMAIN lastPopped
    /\ looked.res.value.load < lastPopped[looked.name].pointer

---------------------------------------------------------------------------
(* Claims about error contexts                                             *)

\* The Context frames of the invocations fs, the last (innermost) first
RECURSIVE ContextsInnermostFirst(_)
ContextsInnermostFirst(fs) ==
    IF fs = <<>> THEN <<>>
    ELSE <<Context(fs[Len(fs)])>>
         \o ContextsInnermostFirst(SubSeq(fs, 1, Len(fs) - 1))

\* An error holds the root error first, then one Context per invocation
\* left so far, innermost first.
ErrorListShape ==
    outcome.st = "Err"
    => /\ Len(ctxStack) <= Len(openAtFail)
       /\ outcome.err.errors[1] \in RootErrorKinds
       /\ Tail(outcome.err.errors) =
             ContextsInnermostFirst(SubSeq(openAtFail, Len(ctxStack) + 1,
                                           Len(openAtFail)))

\* Leaving an invocation keeps an Ok as it is and appends exactly one
\* Context frame, that of the invocation left, to an Err.
LeaveAppendsOneFrame ==
    Len(ctxStack') < Len(ctxStack)
    => IF outcome.st = "Ok"
       THEN outcome' = outcome
       ELSE /\ outcome'.st = "Err"
            /\ Len(outcome'.err.errors) = Len(outcome.err.errors) + 1
            /\ SubSeq(outcome'.err.errors, 1, Len(outcome.err.errors))
                  = outcome.err.errors
            /\ outcome'.err.errors[Len(outcome'.err.errors)]
                  = Context(ctxStack[Len(ctxStack)])

\* C6: error_context returns an Ok unchanged and appends exactly one
\* Context frame after the entries of an Err, so that an error carries the
\* root error first and then the contexts from innermost to outermost.
C6_ContextsAppended == []ErrorListShape /\ [][LeaveAppendsOneFrame]_vars

\* The error of `return y;` in a function, after both invocations
C6_Witness ==
    /\ outcome.st = "Err"
    /\ ctxStack = <<>>
    /\ outcome.err.errors =
          <<[kind |-> "VariableNotFound", name |-> "y"],
            Context("ReturnStatement"), Context("Function")>>

---------------------------------------------------------------------------
(* Claims about monomorphization                                           *)

StateRank(st) ==
    CASE st = "NotStarted" -> 0
      [] st = "Resolving" -> 1
      [] st = "Resolved" -> 2

\* Each instance's body is resolved at most once, exactly the instances on
\* the call stack are Resolving, none is on it twice, and the table holds
\* one entry per (function, type arguments) called.
OneEntryPerInstance ==
    lastCall.how # "idle"
    => /\ \A key \in MangledNames :
             /\ bodyRuns[key] <= 1
             /\ bodyRuns[key] = 1 <=> key \in DOMAIN table
             /\ InstanceState(table, key) = "Resolving"
                <=> \E k \in 1..Len(callStack) : callStack[k] = key
       /\ \A j, k \in 1..Len(callStack) : callStack[j] = callStack[k] => j = k
       /\ Cardinality(DOMAIN table) = Cardinality(requested)
       /\ \A inst \in requested : MangledName(inst) \in DOMAIN table
       /\ lastCall.how \in {"in-flight signature", "memoized"}
          => bodyRuns[lastCall.key] = 1

\* An instance moves forward only, one state at a time.
NeverBackwards ==
    lastCall.how # "idle"
    => \A key \in MangledNames :
          LET before == StateRank(InstanceState(table, key))
              after == StateRank(InstanceState(table', key))
          IN  after = before \/ after = before + 1

---------------------------------------------------------------------------
(* Claims about the top-level parsers, located and skip0                   *)

\* The declaration the tokens of DeclTokens stand for
DeclOfTokens ==
    ToplevelFunctionDecl(<<"f">>,
                         <<<<TypeRef(<<"i">>, None), <<"a">>>>,
                           <<TypeRef(<<"u">>, None), <<"b">>>>>>,
                         TypeRef(<<"v">>, None))

\* C11: whitespace, newlines and comments between any two adjacent tokens
\* of a function declaration do not change the FunctionDecl it parses to.
C11_GapsDoNotChangeDecl ==
    (pc = "toplevel_parse_function_decl" /\ input \in GapInputs)
    => /\ result.st = "Ok"
       /\ result.val.value = DeclOfTokens

\* The text has a comma that only whitespace separates from a closing
\* parenthesis.
HasTrailingComma(s) ==
    \E k \in 1..Len(s) : \E j \in (k + 1)..Len(s) :
        /\ s[k] = ","
        /\ s[j] = ")"
        /\ \A m \in (k + 1)..(j - 1) : s[m] \in MultispaceChars

\* C12: a parameter list or an argument list that ends with a comma before
\* the closing parenthesis is rejected: the declaration, the call and the
\* module that holds it fail to parse.
C12_TrailingCommaRejected ==
    (/\ pc \in {"toplevel_parse_function_decl",
                "parse_function_call_expression", "parse_module"}
     /\ HasTrailingComma(input))
    => result.st = "Error"

C12_Witness ==
    /\ pc = "parse_function_call_expression"
    /\ input = <<"f", "(", "1", ",", ")">>
    /\ result.st = "Error"

\* C13: parse_module yields a module without items on a text of whitespace
\* and comments only, a module of the functions on a text of functions,
\* and fails when something else is left before the end of the text.
C13_ModuleUpToEndOfInput ==
    pc = "parse_module"
    => /\ input \in BlankModules
            => result.st = "Ok" /\ result.val = Module(<<>>)
       /\ input \in FunctionModules
            => result.st = "Ok" /\ Len(result.val.functions) >= 1
       /\ input \in BrokenModules => result.st = "Error"

\* The 1-based line and column of index i, counted character by character
\* from the start of the text.
RECURSIVE LineColFrom(_, _, _, _)
LineColFrom(s, i, k, at) ==
    IF k = i THEN at
    ELSE LineColFrom(s, i, k + 1,
                     IF s[k] = "\n" THEN [line |-> at.line + 1, col |-> 1]
                     ELSE [line |-> at.line, col |-> at.col + 1])

LineCol(s, i) == LineColFrom(s, i, 1, [line |-> 1, col |-> 1])

NotAfter(p, q) == p.line < q.line \/ (p.line = q.line /\ p.col <= q.col)

\* C14: when the inner parser p succeeds, located(p) yields the range
\* from the line and column where skip0 stopped, which is the first
\* character p took, to the line and column right after the last character
\* p took; the start is not after the end and the rest of the text is the
\* rest p left.
C14_RangeOfLocated ==
    (pc \in DOMAIN LocatedParsers /\ result.st = "Ok")
    => LET skipped == skip0(input, 1)
           inner == Run(LocatedParsers[pc], input, skipped.pos)
       IN  /\ inner.st = "Ok"
           /\ inner.pos > skipped.pos
           /\ input[skipped.pos] \notin MultispaceChars
           /\ result.val.range.from = LineCol(input, skipped.pos)
           /\ result.val.range.to = LineCol(input, inner.pos)
           /\ NotAfter(result.val.range.from, result.val.range.to)
           /\ result.val.range.fragment
                = SubSeq(input, skipped.pos, inner.pos - 1)
           /\ result.val.value = inner.val
           /\ result.pos = inner.pos

C14_Witness ==
    /\ pc = "located_digit1"
    /\ input = <<"\n", " ", "1", " ">>
    /\ result.st = "Ok"
    /\ result.val.range.from = [line |-> 2, col |-> 2]
    /\ result.val.range.to = [line |-> 2, col |-> 3]
    /\ result.pos = 4

\* The index right after the comment that starts at i: after its line
\* ending, or after the end of the text.
CommentEnd(s, i) ==
    LET ends == {k \in i..Len(s) : s[k] = "\n"}
    IN  IF ends = {} THEN Len(s) + 1 ELSE SetMin(ends) + 1

\* s[i..e-1] is made of whitespace and whole comments only.
RECURSIVE IsBlank(_, _, _)
IsBlank(s, i, e) ==
    \/ i = e
    \/ /\ i < e
       /\ s[i] \in MultispaceChars
       /\ IsBlank(s, i + 1, e)
    \/ /\ i + 1 < e
       /\ s[i] = "/"
       /\ s[i + 1] = "/"
       /\ CommentEnd(s, i) <= e
       /\ IsBlank(s, CommentEnd(s, i), e)

\* C18: what skip0 consumes is whitespace and whole comments only; no
\* part of a comment is left in the rest of the text.
C18_SkipsWhitespaceAndWholeComments ==
    pc = "skip0"
    => /\ result.st = "Ok"
       /\ IsBlank(input, 1, result.pos)

---------------------------------------------------------------------------
(* Claims about the lowering                                               *)

IsBinary(expr) == expr.kind.kind = "BinaryExpr"

\* Every leaf of the expression is a number literal.
RECURSIVE OfLiterals(_)
OfLiterals(expr) ==
    IF IsBinary(expr)
    THEN OfLiterals(expr.kind.lhs) /\ OfLiterals(expr.kind.rhs)
    ELSE expr.kind.kind = "NumberLiteral"

\* The number an expression of literals stands for.
RECURSIVE ValueOfExpr(_)
ValueOfExpr(expr) ==
    IF ~IsBinary(expr) THEN DecimalValue(expr.kind.value)
    ELSE LET l == ValueOfExpr(expr.kind.lhs)
             r == ValueOfExpr(expr.kind.rhs)
         IN  CASE expr.kind.op = "Add" -> l + r
               [] expr.kind.op = "Sub" -> l - r
               [] expr.kind.op = "Mul" -> l * r
               [] expr.kind.op = "Div" -> l \div r

\* The arithmetic instruction of an operator at a result type
ArithmeticInst(op, ty) ==
    CASE op = "Add" -> "add"
      [] op = "Sub" -> "sub"
      [] op = "Mul" -> "mul"
      [] op = "Div" -> IF Signed(ty[1]) THEN "sdiv" ELSE "udiv"

LastInst(b) == b[Len(b)]

\* C15: a binary expression of one of + - * / with two integer operands
\* lowers without aborting; it yields the value of the expression when the
\* operands are literals (1 + 2 * 3 yields 7) and the value of the
\* matching arithmetic instruction otherwise.
C15_IntegerArithmeticLowers ==
    (/\ genPc = "gen_expression"
     /\ IsBinary(built.input)
     /\ is_integer_type(built.input.kind.lhs.ty)
     /\ is_integer_type(built.input.kind.rhs.ty))
    => /\ built.res.st = "Ok"
       /\ built.res.value.kind = "IntValue"
       /\ OfLiterals(built.input)
            => built.res.value.at = <<"const", U64(ValueOfExpr(built.input))>>
       /\ ~OfLiterals(built.input)
            => /\ built.res.value.at = <<"reg", Len(built.res.b)>>
               /\ LastInst(built.res.b).op
                    = ArithmeticInst(built.input.kind.op, built.input.ty)

\* The target type a declared type lowers to
Lowered(ty) ==
    CASE ty = "Void" -> "void"
      [] ty = "U8" -> "i8"
      [] ty \in {"I32", "U32"} -> "i32"
      [] ty \in {"I64", "U64", "USize"} -> "i64"
      [] ty = "Ptr" -> "ptr"

\* C16: the function gen_function adds has one entry block, a parameter of
\* the lowered declared type for each declared parameter and the lowered
\* declared return type; the entry block of a function returning void that
\* ends in a return statement ends in ret void.
C16_SignatureMirrorsDeclaration ==
    (genPc = "gen_function" /\ built.res.st = "Ok")
    => LET decl == built.input.decl
           function == built.res.function
       IN  /\ Len(function.blocks) = 1
           /\ function.blocks[1].name = "entry"
           /\ function.ty.return_type = Lowered(decl.return_type)
           /\ Len(function.ty.params) = Len(decl.params)
           /\ \A k \in 1..Len(decl.params) :
                 function.ty.params[k] = Lowered(decl.params[k][1])
           /\ (decl.return_type = "Void" /\ built.input.body = <<Return(None)>>)
                => LastInst(function.blocks[1].insts)
                     = Inst("ret", "void", None)

CountOf(b, op) == Cardinality({k \in 1..Len(b) : b[k].op = op})

\* C17: gen_return emits the instructions of the expression and then one
\* return instruction, nothing else: no stack slot and no store is added.
C17_ReturnAddsOnlyRet ==
    (genPc = "gen_return" /\ built.res.st = "Ok")
    => LET before == InBody.b
           after == built.res.b
           expr == IF built.input.expression = None THEN before
                   ELSE gen_expression(InBody.scopes, before,
                                       built.input.expression[1]).b
       IN  /\ after = Append(expr, LastInst(after))
           /\ LastInst(after).op = "ret"
           /\ CountOf(after, "alloca") = CountOf(before, "alloca")
           /\ CountOf(after, "store") = CountOf(before, "store")

\* C19: a call of gen_function leaves the variable scopes and the function
\* scopes as deep as it found them, whether it returns Ok or an error.
C19_ScopesBalanced ==
    [][genPc' = "gen_function"
         => /\ Len(genContext'.scopes) = Len(genContext.scopes)
            /\ Len(genContext'.function_scopes)
                 = Len(genContext.function_scopes)]_vars

\* C20: p + i and p - i, p a pointer and i an integer, lower to an
\* address-of-element instruction on p with index i and yield a pointer.
C20_PointerArithmeticLowers ==
    (/\ genPc = "gen_expression"
     /\ IsBinary(built.input)
     /\ built.input.kind.op \in {"Add", "Sub"}
     /\ ~is_integer_type(built.input.kind.lhs.ty)
     /\ is_integer_type(built.input.kind.rhs.ty))
    => /\ built.res.st = "Ok"
       /\ built.res.value.kind = "PointerValue"
       /\ LastInst(built.res.b).op = "gep"

\* The width of an integer type
WidthOf(name) ==
    CASE name = "U8" -> 8
      [] name \in {"U32", "I32"} -> 32
      [] name \in {"U64", "I64", "USize"} -> 64

\* The word divided by ten from limb k down, rem carried in from above:
\* the remainder first, then the limbs of the quotient
RECURSIVE DivTenFrom(_, _, _)
DivTenFrom(n, k, rem) ==
    IF k = 0 THEN <<rem>>
    ELSE DivTenFrom(n, k - 1, (rem * LimbBase + n[k]) % 10)
           \o <<(rem * LimbBase + n[k]) \div 10>>

\* The decimal digits of the number a word holds, none for zero
RECURSIVE DecimalOf(_)
DecimalOf(n) ==
    LET Digit(r) ==
            DecimalOf(SubSeq(r, 2, Limbs + 1)) \o <<ToString(r[1])>>
    IN  IF \A k \in 1..Limbs : n[k] = 0 THEN <<>>
        ELSE Digit(DivTenFrom(n, Limbs, 0))

\* C21: for every integer type T of width w and every decimal literal
\* whose value fits T, eval_number_literal yields a constant of the
\* integer type of width w whose bits are the literal's value (unsigned
\* values above the signed maximum of the width included).
C21_LiteralValuePreserved ==
    (/\ genPc = "eval_number_literal"
     /\ IsDigitString(built.input.kind.value)
     /\ ParsesAs(built.input.ty[1], built.input.kind.value))
        => /\ built.res.st = "Ok"
           /\ built.res.value.kind = "IntValue"
           /\ IsConst(built.res.value)
           /\ IntBits(built.res.value.ty) = WidthOf(built.input.ty[1])
           /\ FitsBits(built.res.value.at[2], WidthOf(built.input.ty[1]))
           /\ DecimalOf(built.res.value.at[2])
                = StripZeros(built.input.kind.value)

\* 4294967295 as U32, above the largest I32: the constant has all 32 bits
\* set
C21_Witness ==
    /\ genPc = "eval_number_literal"
    /\ built.input.ty = <<"U32">>
    /\ built.input.kind.value = MaxDigitsOf("U32")
    /\ built.res.st = "Ok"
    /\ built.res.value.ty = "i32"
    /\ built.res.value.at = <<"const", <<65535, 65535, 0, 0>>>>
---------------------------------------------------------------------------
(* The specifications                                                      *)

OnlyParserInit ==
    /\ ParserInit
    /\ ScopesIdle
    /\ ErrIdle
    /\ MonoIdle
    /\ TypesIdle
    /\ AssignIdle
    /\ GenIdle

SpecParser ==
    /\ OnlyParserInit
    /\ [][ParserNext]_vars

OnlyScopesInit ==
    /\ ParserIdle
    /\ ScopesInit
    /\ ErrIdle
    /\ MonoIdle
    /\ TypesIdle
    /\ AssignIdle
    /\ GenIdle

SpecScopes ==
    /\ OnlyScopesInit
    /\ [][ScopesNext]_vars

OnlyErrInit ==
    /\ ParserIdle
    /\ ScopesIdle
    /\ ErrInit
    /\ MonoIdle
    /\ TypesIdle
    /\ AssignIdle
    /\ GenIdle

SpecErrors ==
    /\ OnlyErrInit
    /\ [][ErrNext]_vars

OnlyMonoInit ==
    /\ ParserIdle
    /\ ScopesIdle
    /\ ErrIdle
    /\ MonoInit
    /\ TypesIdle
    /\ AssignIdle
    /\ GenIdle

SpecGenerics ==
    /\ OnlyMonoInit
    /\ [][MonoNext]_vars

OnlyTypesInit ==
    /\ ParserIdle
    /\ ScopesIdle
    /\ ErrIdle
    /\ MonoIdle
    /\ TypesInit
    /\ AssignIdle
    /\ GenIdle

SpecTypes ==
    /\ OnlyTypesInit
    /\ [][TypesNext]_vars

OnlyAssignInit ==
    /\ ParserIdle
    /\ ScopesIdle
    /\ ErrIdle
    /\ MonoIdle
    /\ TypesIdle
    /\ AssignInit
    /\ GenIdle

SpecAssign ==
    /\ OnlyAssignInit
    /\ [][AssignNext]_vars

OnlyToplevelInit ==
    /\ ToplevelInit
    /\ ScopesIdle
    /\ ErrIdle
    /\ MonoIdle
    /\ TypesIdle
    /\ AssignIdle
    /\ GenIdle

SpecToplevel ==
    /\ OnlyToplevelInit
    /\ [][ToplevelNext]_vars

OnlyGenInit ==
    /\ ParserIdle
    /\ ScopesIdle
    /\ ErrIdle
    /\ MonoIdle
    /\ TypesIdle
    /\ AssignIdle
    /\ GenInit

SpecCodegen ==
    /\ OnlyGenInit
    /\ [][GenNext]_vars

\* The whole: one of the components runs.
Init ==
    \/ OnlyParserInit
    \/ OnlyScopesInit
    \/ OnlyErrInit
    \/ OnlyMonoInit
    \/ OnlyTypesInit
    \/ OnlyAssignInit
    \/ OnlyToplevelInit
    \/ OnlyGenInit

Next ==
    \/ ParserNext
    \/ ToplevelNext
    \/ GenNext
    \/ nextPtr # 0 /\ ScopesNext
    \/ outcome.st # "Idle" /\ ErrNext
    \/ lastCall.how # "idle" /\ MonoNext
    \/ tyPair # <<>> /\ TypesNext
    \/ varTypes # <<>> /\ AssignNext

Spec == Init /\ [][Next]_vars

====
